---- MODULE Spec2Model ----
(***************************************************************************)
(* Multi-source dimension resolution of the Gridfinity cutout generator:   *)
(* DimensionsResult.merge_missing, the provider fold of fetch_dimensions,  *)
(* the unit normalizer to_mm and the free-text parser.                     *)
(*                                                                         *)
(* Confidences are hundredths (0.6 is 60).  Optional strings use NoneStr   *)
(* for Python's None; an optional DimensionsResult uses None.              *)
(***************************************************************************)
EXTENDS Integers, Sequences, FiniteSets, TLC

VARIABLES
    primary,      \* merge_missing: self
    secondary,    \* merge_missing: other
    merged,       \* merge_missing(primary, secondary), None before the call
    selfMerged,   \* merge_missing(primary, primary), None before the call
    results,      \* fold: the ordered provider results
    n,            \* fold: how many results are folded into acc
    acc,          \* fold: the accumulator ("best")
    regrouped,    \* fold: the same results merged right-to-left
    argAmount,    \* to_mm: amount
    argUnit,      \* to_mm: unit_uri_or_code
    mm,           \* to_mm: the value returned
    converted,    \* to_mm: whether it has returned
    argText,      \* normalize_dims_from_text: text
    shape,        \* the parts the text was written from
    parsed,       \* normalize_dims_from_text: the value returned
    normalized,   \* normalize_dims_from_text: whether it has returned
    qid,          \* fetch_dimensions: the resolved identifier, NoneStr when none
    label,        \* fetch_dimensions: the display name, NoneStr when none
    answers,      \* what each provider answers when it is called
    invoked,      \* the providers fetch_dimensions has called
    fetched,      \* the results of the calls that have completed
    arrived,      \* the providers in the order their calls completed
    best,         \* fetch_dimensions: best
    pc,           \* fetch_dimensions: where it is
    raised,       \* whether an exception has left fetch_dimensions
    reply,        \* /dimensions: the HTTP reply, None before it is sent
    response,     \* fetch_schema_org: what the GET of the page yields
    sopc,         \* fetch_schema_org: where it is
    soResult,     \* fetch_schema_org: the value returned
    wdRows,       \* fetch_wikidata_dimensions: rows
    wdNext,       \* fetch_wikidata_dimensions: the index of the next row
    wdDims,       \* fetch_wikidata_dimensions: dims
    refs_total,   \* fetch_wikidata_dimensions: refs_total
    wdLabel,      \* fetch_wikidata_dimensions: label
    wdResult,     \* fetch_wikidata_dimensions: the value returned
    wdpc,         \* fetch_wikidata_dimensions: where it is
    item,         \* generate_proposals: the item size
    proposals,    \* generate_proposals: the value returned, <<>> before
    clock,        \* temp-file service: time.time(), in seconds
    TEMP_DIR,     \* temp-file service: the files of TEMP_DIR, by path
    issued,       \* temp-file service: the download URLs generate has returned
    download      \* temp-file service: the last download and its reply

mergeVars == <<primary, secondary, merged, selfMerged>>
foldVars == <<results, n, acc, regrouped>>
unitVars == <<argAmount, argUnit, mm, converted>>
parseVars == <<argText, shape, parsed, normalized>>
fetchVars == <<qid, label, answers, invoked, fetched, arrived, best, pc, raised>>
apiVars == <<reply>>
soVars == <<response, sopc, soResult>>
wdVars == <<wdRows, wdNext, wdDims, refs_total, wdLabel, wdResult, wdpc>>
propVars == <<item, proposals>>
tempVars == <<clock, TEMP_DIR, issued, download>>
vars == <<mergeVars, foldVars, unitVars, parseVars, fetchVars, apiVars, soVars, wdVars, propVars, tempVars>>

----------------------------------------------------------------------------
(* Values *)

None == [none |-> TRUE]
NoneStr == "None"

\* Python truthiness of an Optional[str]: None and "" are falsy.
Falsy(s) == s \in {NoneStr, ""}

\* Python's `x or y`.
Or(x, y) == IF Falsy(x) THEN y ELSE x

EmptyDict == [k \in {} |-> 0]

\* Python's {**lo, **hi}: the keys of both, hi's value where both have the key.
DictMerge(lo, hi) ==
    [k \in (DOMAIN lo) \cup (DOMAIN hi) |-> IF k \in DOMAIN hi THEN hi[k] ELSE lo[k]]

Max(x, y) == IF x >= y THEN x ELSE y

DimensionsResult(item_id, name, dims_mm, source, source_url, confidence, evidence, raw) ==
    [item_id |-> item_id, name |-> name, dims_mm |-> dims_mm, source |-> source,
     source_url |-> source_url, confidence |-> confidence, evidence |-> evidence,
     raw |-> raw]

----------------------------------------------------------------------------
(* DimensionsResult.merge_missing *)

\* merge_missing with the two dict unpackings swapped: the lower-confidence
\* input overwrites the higher-confidence one.
merge_missing_swapped_dims(self, other) ==
    DimensionsResult(
        Or(self.item_id, other.item_id),
        Or(self.name, other.name),
        IF self.confidence >= other.confidence
            THEN DictMerge(self.dims_mm, other.dims_mm)
            ELSE DictMerge(other.dims_mm, self.dims_mm),
        IF self.confidence >= other.confidence THEN self.source ELSE other.source,
        IF self.confidence >= other.confidence THEN self.source_url ELSE other.source_url,
        Max(self.confidence, other.confidence),
        self.evidence \o other.evidence,
        <<"pair", self.raw, other.raw>>)

\* merge_missing whose source and source_url compare with > instead of >=.
merge_missing_strict_source(self, other) ==
    DimensionsResult(
        Or(self.item_id, other.item_id),
        Or(self.name, other.name),
        IF self.confidence >= other.confidence
            THEN DictMerge(other.dims_mm, self.dims_mm)
            ELSE DictMerge(self.dims_mm, other.dims_mm),
        IF self.confidence > other.confidence THEN self.source ELSE other.source,
        IF self.confidence > other.confidence THEN self.source_url ELSE other.source_url,
        Max(self.confidence, other.confidence),
        self.evidence \o other.evidence,
        <<"pair", self.raw, other.raw>>)

\* merge_missing that keeps self's evidence and does not append other's.
merge_missing_own_evidence(self, other) ==
    DimensionsResult(
        Or(self.item_id, other.item_id),
        Or(self.name, other.name),
        IF self.confidence >= other.confidence
            THEN DictMerge(other.dims_mm, self.dims_mm)
            ELSE DictMerge(self.dims_mm, other.dims_mm),
        IF self.confidence >= other.confidence THEN self.source ELSE other.source,
        IF self.confidence >= other.confidence THEN self.source_url ELSE other.source_url,
        Max(self.confidence, other.confidence),
        self.evidence,
        <<"pair", self.raw, other.raw>>)

\* merge_missing that takes other's confidence instead of the maximum.
merge_missing_other_confidence(self, other) ==
    DimensionsResult(
        Or(self.item_id, other.item_id),
        Or(self.name, other.name),
        IF self.confidence >= other.confidence
            THEN DictMerge(other.dims_mm, self.dims_mm)
            ELSE DictMerge(self.dims_mm, other.dims_mm),
        IF self.confidence >= other.confidence THEN self.source ELSE other.source,
        IF self.confidence >= other.confidence THEN self.source_url ELSE other.source_url,
        other.confidence,
        self.evidence \o other.evidence,
        <<"pair", self.raw, other.raw>>)

\* merge_missing that returns only the winner's axes and fills nothing in.
merge_missing_no_fill(self, other) ==
    DimensionsResult(
        Or(self.item_id, other.item_id),
        Or(self.name, other.name),
        IF self.confidence >= other.confidence THEN self.dims_mm ELSE other.dims_mm,
        IF self.confidence >= other.confidence THEN self.source ELSE other.source,
        IF self.confidence >= other.confidence THEN self.source_url ELSE other.source_url,
        Max(self.confidence, other.confidence),
        self.evidence \o other.evidence,
        <<"pair", self.raw, other.raw>>)

merge_missing(self, other) ==
    DimensionsResult(
        Or(self.item_id, other.item_id),
        Or(self.name, other.name),
        IF self.confidence >= other.confidence
            THEN DictMerge(other.dims_mm, self.dims_mm)
            ELSE DictMerge(self.dims_mm, other.dims_mm),
        IF self.confidence >= other.confidence THEN self.source ELSE other.source,
        IF self.confidence >= other.confidence THEN self.source_url ELSE other.source_url,
        Max(self.confidence, other.confidence),
        self.evidence \o other.evidence,
        <<"pair", self.raw, other.raw>>)

----------------------------------------------------------------------------
(* Numbers and strings *)

\* A float is a decimal m * 10^-e, kept without trailing zeros; arithmetic on
\* the decimals is exact.
RECURSIVE Dec(_, _)
Dec(m, e) == IF e > 0 /\ m % 10 = 0 THEN Dec(m \div 10, e - 1) ELSE [m |-> m, e |-> e]

Mul(x, y) == Dec(x.m * y.m, x.e + y.e)

\* A string is the sequence of its characters.  NoneText is Python's None
\* where a string is expected.
NoneText == <<"None">>

UpperChars == <<"A", "B", "C", "D", "E", "F", "G", "H", "I", "J", "K", "L", "M",
                "N", "O", "P", "Q", "R", "S", "T", "U", "V", "W", "X", "Y", "Z">>
LowerChars == <<"a", "b", "c", "d", "e", "f", "g", "h", "i", "j", "k", "l", "m",
                "n", "o", "p", "q", "r", "s", "t", "u", "v", "w", "x", "y", "z">>

\* The lower-case letter of each upper-case letter, and the reverse.
ToLower == [c \in {UpperChars[i] : i \in 1..Len(UpperChars)} |->
               LowerChars[CHOOSE i \in 1..Len(UpperChars) : UpperChars[i] = c]]
ToUpper == [c \in {LowerChars[i] : i \in 1..Len(LowerChars)} |->
               UpperChars[CHOOSE i \in 1..Len(LowerChars) : LowerChars[i] = c]]

LowerChar(c) == IF c \in DOMAIN ToLower THEN ToLower[c] ELSE c

UpperChar(c) == IF c \in DOMAIN ToUpper THEN ToUpper[c] ELSE c

\* The characters U+0130 (capital I with dot above), U+0131 (dotless i),
\* U+017F (long s) and U+0307 (combining dot above).
CAPITAL_I_WITH_DOT == "U+0130"
DOTLESS_I == "U+0131"
LONG_S == "U+017F"
COMBINING_DOT == "U+0307"

\* str.lower() of one character: U+0130 lowers to "i" and U+0307; U+0131 and
\* U+017F are lower-case already.
LowerOf(c) == IF c = CAPITAL_I_WITH_DOT THEN <<"i", COMBINING_DOT>> ELSE <<LowerChar(c)>>

\* str.lower()
RECURSIVE Lower(_)
Lower(s) == IF s = <<>> THEN <<>> ELSE LowerOf(s[1]) \o Lower(Tail(s))

\* str.upper()
Upper(s) == [i \in 1..Len(s) |-> UpperChar(s[i])]

Whitespace == {" ", "\t"}

\* str.strip()
RECURSIVE Strip(_)
Strip(s) ==
    IF s = <<>> THEN s
    ELSE IF s[1] \in Whitespace THEN Strip(Tail(s))
    ELSE IF s[Len(s)] \in Whitespace THEN Strip(SubSeq(s, 1, Len(s) - 1))
    ELSE s

\* The dict with the given <<key, value>> items.
Table(items) == [k \in {it[1] : it \in items} |-> (CHOOSE it \in items : it[1] = k)[2]]

----------------------------------------------------------------------------
(* units.py *)

\* Millimetres per unit.
MM_PER_UNIT == Dec(1, 0)
CM_PER_UNIT == Dec(10, 0)
M_PER_UNIT == Dec(1000, 0)
IN_PER_UNIT == Dec(254, 1)
FT_PER_UNIT == Dec(3048, 1)

\* The characters U+2033 (double prime) and U+2032 (prime).
DOUBLE_PRIME == "U+2033"
PRIME == "U+2032"

\* The prefix of a Wikidata entity URI, one token.
WD == "http://www.wikidata.org/entity/"

WIKIDATA_UNIT_TO_MM ==
    Table({
        <<<<WD, "Q", "1", "7", "4", "7", "8", "9">>, MM_PER_UNIT>>,
        <<<<WD, "Q", "1", "7", "4", "7", "2", "8">>, CM_PER_UNIT>>,
        <<<<WD, "Q", "1", "1", "5", "7", "3">>, M_PER_UNIT>>,
        <<<<WD, "Q", "2", "1", "8", "5", "9", "3">>, IN_PER_UNIT>>,
        <<<<WD, "Q", "3", "7", "1", "0">>, FT_PER_UNIT>>})

UNITCODE_TO_MM ==
    Table({
        <<<<"M", "M", "T">>, MM_PER_UNIT>>,
        <<<<"C", "M", "T">>, CM_PER_UNIT>>,
        <<<<"M", "T", "R">>, M_PER_UNIT>>,
        <<<<"I", "N", "H">>, IN_PER_UNIT>>,
        <<<<"F", "O", "T">>, FT_PER_UNIT>>,
        <<<<"M", "M">>, MM_PER_UNIT>>,
        <<<<"C", "M">>, CM_PER_UNIT>>,
        <<<<"M">>, M_PER_UNIT>>,
        <<<<"I", "N">>, IN_PER_UNIT>>,
        <<<<"F", "T">>, FT_PER_UNIT>>})

SYMBOL_TO_MM ==
    Table({
        <<<<"m", "m">>, MM_PER_UNIT>>,
        <<<<"m", "i", "l", "l", "i", "m", "e", "t", "e", "r">>, MM_PER_UNIT>>,
        <<<<"m", "i", "l", "l", "i", "m", "e", "t", "r", "e">>, MM_PER_UNIT>>,
        <<<<"c", "m">>, CM_PER_UNIT>>,
        <<<<"c", "e", "n", "t", "i", "m", "e", "t", "e", "r">>, CM_PER_UNIT>>,
        <<<<"c", "e", "n", "t", "i", "m", "e", "t", "r", "e">>, CM_PER_UNIT>>,
        <<<<"m">>, M_PER_UNIT>>,
        <<<<"m", "e", "t", "e", "r">>, M_PER_UNIT>>,
        <<<<"m", "e", "t", "r", "e">>, M_PER_UNIT>>,
        <<<<"i", "n">>, IN_PER_UNIT>>,
        <<<<"i", "n", "c", "h">>, IN_PER_UNIT>>,
        <<<<"i", "n", "c", "h", "e", "s">>, IN_PER_UNIT>>,
        <<<<DOUBLE_PRIME>>, IN_PER_UNIT>>,
        <<<<"\"">>, IN_PER_UNIT>>,
        <<<<"f", "t">>, FT_PER_UNIT>>,
        <<<<"f", "o", "o", "t">>, FT_PER_UNIT>>,
        <<<<"f", "e", "e", "t">>, FT_PER_UNIT>>,
        <<<<PRIME>>, FT_PER_UNIT>>})

\* to_mm without the strip() before the lookup in SYMBOL_TO_MM.
to_mm_no_strip(amount, unit_uri_or_code) ==
    IF unit_uri_or_code = NoneText THEN None
    ELSE IF unit_uri_or_code \in DOMAIN WIKIDATA_UNIT_TO_MM
        THEN Mul(amount, WIKIDATA_UNIT_TO_MM[unit_uri_or_code])
    ELSE IF unit_uri_or_code \in DOMAIN UNITCODE_TO_MM
        THEN Mul(amount, UNITCODE_TO_MM[unit_uri_or_code])
    ELSE LET u == Lower(unit_uri_or_code)
         IN  IF u \in DOMAIN SYMBOL_TO_MM THEN Mul(amount, SYMBOL_TO_MM[u]) ELSE None

to_mm(amount, unit_uri_or_code) ==
    IF unit_uri_or_code = NoneText THEN None
    ELSE IF unit_uri_or_code \in DOMAIN WIKIDATA_UNIT_TO_MM
        THEN Mul(amount, WIKIDATA_UNIT_TO_MM[unit_uri_or_code])
    ELSE IF unit_uri_or_code \in DOMAIN UNITCODE_TO_MM
        THEN Mul(amount, UNITCODE_TO_MM[unit_uri_or_code])
    ELSE LET u == Lower(Strip(unit_uri_or_code))
         IN  IF u \in DOMAIN SYMBOL_TO_MM THEN Mul(amount, SYMBOL_TO_MM[u]) ELSE None

----------------------------------------------------------------------------
(* parse.py: the two patterns, matched as re.search matches them *)

Digits == <<"0", "1", "2", "3", "4", "5", "6", "7", "8", "9">>

\* int() of each digit.
DigitValueOf == [c \in {Digits[i] : i \in 1..Len(Digits)} |->
                    (CHOOSE i \in 1..Len(Digits) : Digits[i] = c) - 1]

IsDigit(c) == c \in DOMAIN DigitValueOf

DigitValue(c) == DigitValueOf[c]

\* The character U+00D7 (multiplication sign).
TIMES == "U+00D7"

\* [×xX*]
Separators == {TIMES, "x", "X", "*"}

\* [\.,]
DecimalMarks == {".", ","}

\* The alternatives of the unit group, in the order the pattern tries them.
UNIT_ALTERNATIVES ==
    <<<<"m", "m">>,
      <<"m", "i", "l", "l", "i", "m", "e", "t", "r", "e">>,
      <<"m", "i", "l", "l", "i", "m", "e", "t", "e", "r">>,
      <<"c", "m">>,
      <<"c", "e", "n", "t", "i", "m", "e", "t", "r", "e">>,
      <<"c", "e", "n", "t", "i", "m", "e", "t", "e", "r">>,
      <<"m">>,
      <<"m", "e", "t", "r", "e">>,
      <<"m", "e", "t", "e", "r">>,
      <<"i", "n">>,
      <<"i", "n", "c", "h">>,
      <<"i", "n", "c", "h", "e", "s">>,
      <<DOUBLE_PRIME>>,
      <<"\"">>,
      <<"f", "t">>,
      <<"f", "o", "o", "t">>,
      <<"f", "e", "e", "t">>,
      <<PRIME>>>>

\* How many digits start at position i, at most max.
RECURSIVE DigitRun(_, _, _)
DigitRun(t, i, max) ==
    IF max = 0 \/ i > Len(t) \/ ~IsDigit(t[i]) THEN 0 ELSE 1 + DigitRun(t, i + 1, max - 1)

\* \s* : the position after the whitespace that starts at i.
RECURSIVE SkipSpace(_, _)
SkipSpace(t, i) == IF i <= Len(t) /\ t[i] \in Whitespace THEN SkipSpace(t, i + 1) ELSE i

\* (?:[\.,]\d{1,3})? after a decimal mark, the digits starting at j: the end
\* positions the greedy group tries, longest first.
RECURSIVE DecimalEnds(_, _)
DecimalEnds(j, d) == IF d = 0 THEN <<>> ELSE <<j + d>> \o DecimalEnds(j, d - 1)

\* \d{1,4}(?:[\.,]\d{1,3})? at position i with k digits taken, then with fewer:
\* the end positions in the order backtracking tries them.
RECURSIVE NumberEndsWith(_, _, _)
NumberEndsWith(t, i, k) ==
    IF k = 0 THEN <<>>
    ELSE (IF i + k <= Len(t) /\ t[i + k] \in DecimalMarks
              THEN DecimalEnds(i + k + 1, DigitRun(t, i + k + 1, 3))
              ELSE <<>>)
         \o <<i + k>> \o NumberEndsWith(t, i, k - 1)

NumberEnds(t, i) == NumberEndsWith(t, i, DigitRun(t, i, 4))

\* re.IGNORECASE on a str pattern: the characters that match the pattern
\* character c are c, its other case, and the characters whose case mapping
\* meets it: U+0130 and U+0131 for "i", U+017F for "s".
IgnoreCase(c) ==
    {c, UpperChar(c)}
        \cup (IF c = "i" THEN {CAPITAL_I_WITH_DOT, DOTLESS_I} ELSE {})
        \cup (IF c = "s" THEN {LONG_S} ELSE {})

\* Whether alternative alt matches at position i, ignoring case.
AlternativeAt(t, i, alt) ==
    /\ i + Len(alt) - 1 <= Len(t)
    /\ \A k \in 1..Len(alt) : t[i + k - 1] \in IgnoreCase(alt[k])

\* The unit group at position i, from its j-th alternative on: the text of the
\* first alternative that matches, NoneText when none does.
RECURSIVE UnitFrom(_, _, _)
UnitFrom(t, i, j) ==
    IF j > Len(UNIT_ALTERNATIVES) THEN NoneText
    ELSE IF AlternativeAt(t, i, UNIT_ALTERNATIVES[j])
        THEN SubSeq(t, i, i + Len(UNIT_ALTERNATIVES[j]) - 1)
    ELSE UnitFrom(t, i, j + 1)

UnitAt(t, i) == UnitFrom(t, i, 1)

\* x if x is a match, else y.
OrElse(x, y) == IF x = None THEN y ELSE x

\* (?P<c>...)\s*(?P<unit>...)? : the third number from i to the first of its
\* ends (the longest: whatever follows matches) and the optional unit.
ThirdOf(t, i, ends) == IF ends = <<>> THEN None ELSE [c |-> SubSeq(t, i, ends[1] - 1), unit |-> UnitAt(t, SkipSpace(t, ends[1]))]

\* _DIM_RE from its third number on, at position i.
MatchThird(t, i) == ThirdOf(t, i, NumberEnds(t, i))

\* [×xX*]\s* at position s, then the third number.
ThirdAfter(t, s) == IF s <= Len(t) /\ t[s] \in Separators THEN MatchThird(t, SkipSpace(t, s + 1)) ELSE None

\* The groups b, c, unit, for a second number from i to e and a match rest of
\* what follows it.
SecondOf(t, i, e, rest) == IF rest = None THEN None ELSE [b |-> SubSeq(t, i, e - 1), c |-> rest.c, unit |-> rest.unit]

\* _DIM_RE from its second number on, at position i, trying the j-th end of
\* the number and then the later ones.
RECURSIVE MatchSecondEnds(_, _, _, _)
MatchSecondEnds(t, i, ends, j) == IF j > Len(ends) THEN None ELSE OrElse(SecondOf(t, i, ends[j], ThirdAfter(t, SkipSpace(t, ends[j]))), MatchSecondEnds(t, i, ends, j + 1))

MatchSecond(t, i) == MatchSecondEnds(t, i, NumberEnds(t, i), 1)

\* [×xX*]\s* at position s, then the second number.
SecondAfter(t, s) == IF s <= Len(t) /\ t[s] \in Separators THEN MatchSecond(t, SkipSpace(t, s + 1)) ELSE None

\* The groups a, b, c, unit, for a first number from i to e and a match rest
\* of what follows it.
FirstOf(t, i, e, rest) == IF rest = None THEN None ELSE [a |-> SubSeq(t, i, e - 1), b |-> rest.b, c |-> rest.c, unit |-> rest.unit]

\* _DIM_RE at position i, trying the j-th end of the first number and then the
\* later ones.
RECURSIVE MatchFirstEnds(_, _, _, _)
MatchFirstEnds(t, i, ends, j) == IF j > Len(ends) THEN None ELSE OrElse(FirstOf(t, i, ends[j], SecondAfter(t, SkipSpace(t, ends[j]))), MatchFirstEnds(t, i, ends, j + 1))

MatchFirst(t, i) == MatchFirstEnds(t, i, NumberEnds(t, i), 1)

\* _DIM_RE.search(text): the match at the leftmost position that has one.
RECURSIVE DimSearch(_, _)
DimSearch(t, i) == IF i > Len(t) THEN None ELSE OrElse(MatchFirst(t, i), DimSearch(t, i + 1))

\* The groups val, unit, for a number from i to e followed by the unit u.
NumUnitOf(t, i, e, u) == IF u = NoneText THEN None ELSE [val |-> SubSeq(t, i, e - 1), unit |-> u]

\* _NUM_UNIT_RE at position i, trying the j-th end of the number and then the
\* later ones.
RECURSIVE MatchNumUnitEnds(_, _, _, _)
MatchNumUnitEnds(t, i, ends, j) == IF j > Len(ends) THEN None ELSE OrElse(NumUnitOf(t, i, ends[j], UnitAt(t, SkipSpace(t, ends[j]))), MatchNumUnitEnds(t, i, ends, j + 1))

MatchNumUnit(t, i) == MatchNumUnitEnds(t, i, NumberEnds(t, i), 1)

\* _NUM_UNIT_RE.search(text)
RECURSIVE NumUnitSearch(_, _)
NumUnitSearch(t, i) == IF i > Len(t) THEN None ELSE OrElse(MatchNumUnit(t, i), NumUnitSearch(t, i + 1))

\* int() of a string of digits.
RECURSIVE DigitsToInt(_)
DigitsToInt(s) ==
    IF s = <<>> THEN 0
    ELSE 10 * DigitsToInt(SubSeq(s, 1, Len(s) - 1)) + DigitValue(s[Len(s)])

\* _to_float: float(s.replace(",", ".")) of a matched number.
_to_float(s) ==
    IF \E i \in 1..Len(s) : s[i] \in DecimalMarks
        THEN LET i == CHOOSE i \in 1..Len(s) : s[i] \in DecimalMarks
             IN  Dec(DigitsToInt(SubSeq(s, 1, i - 1) \o SubSeq(s, i + 1, Len(s))),
                     Len(s) - i)
        ELSE Dec(DigitsToInt(s), 0)

\* a, b, c, unit of a match m.
TripletOf(m) == IF m = None THEN None ELSE [a |-> _to_float(m.a), b |-> _to_float(m.b), c |-> _to_float(m.c), unit |-> m.unit]

parse_triplet(text) == TripletOf(DimSearch(text, 1))

\* val, unit of a match m.
SingleOf(m) == IF m = None THEN None ELSE [val |-> _to_float(m.val), unit |-> m.unit]

parse_single(text) == SingleOf(NumUnitSearch(text, 1))

\* Python's `x or y` for an Optional[float]: None and 0.0 are falsy.
OrFloat(x, y) == IF x = None \/ x.m = 0 THEN y ELSE x

\* {"L": a * factor, "W": b * factor, "H": c * factor}
TripleTimes(triple, factor) == [k \in {"L", "W", "H"} |-> IF k = "L" THEN Mul(triple.a, factor) ELSE IF k = "W" THEN Mul(triple.b, factor) ELSE Mul(triple.c, factor)]

\* if triple: ... return the three axes
DimsOfTriple(triple) == IF triple = None THEN None ELSE TripleTimes(triple, OrFloat(to_mm(Dec(1, 0), triple.unit), Dec(1, 0)))

\* if one: ... return {"L": val * factor}
DimsOfOne(one) == IF one = None THEN None ELSE [k \in {"L"} |-> Mul(one.val, OrFloat(to_mm(Dec(1, 0), one.unit), Dec(1, 0)))]

normalize_dims_from_text(text) == OrElse(DimsOfTriple(parse_triplet(text)), DimsOfOne(parse_single(text)))

----------------------------------------------------------------------------
(* Each specification runs one component; the others stay as they start. *)

MergeIdle == primary = None /\ secondary = None /\ merged = None /\ selfMerged = None
FoldIdle == results = <<>> /\ n = 0 /\ acc = None /\ regrouped = None
UnitIdle == argAmount = Dec(0, 0) /\ argUnit = NoneText /\ mm = None /\ converted = FALSE
ParseIdle == argText = <<>> /\ shape = None /\ parsed = None /\ normalized = FALSE
FetchIdle ==
    /\ qid = NoneStr /\ label = NoneStr /\ answers = <<>> /\ invoked = {}
    /\ fetched = <<>> /\ arrived = <<>> /\ best = None /\ pc = "idle" /\ raised = FALSE
ApiIdle == reply = None
SoIdle == response = None /\ sopc = "idle" /\ soResult = None
WdIdle ==
    /\ wdRows = <<>> /\ wdNext = 0 /\ wdDims = EmptyDict /\ refs_total = 0
    /\ wdLabel = NoneStr /\ wdResult = None /\ wdpc = "idle"
PropIdle == item = None /\ proposals = <<>>
TempIdle == clock = 0 /\ TEMP_DIR = <<>> /\ issued = <<>> /\ download = None
OthersIdle == SoIdle /\ WdIdle /\ PropIdle

----------------------------------------------------------------------------
(* Inputs of the merge specifications *)

\* Largest millimetre value of an input axis.
MaxVal == 2

\* Confidences the providers produce, in hundredths.
CONF_WIKIPEDIA == 60
CONF_WIKIDATA_BASE == 80
CONF_SCHEMA_ORG == 90

Confs == {CONF_WIKIPEDIA, CONF_WIKIDATA_BASE, CONF_SCHEMA_ORG}

MergeAxes == {"L", "W"}

\* Every dict from some of the keys to a value in 1..maxv.
Dicts(keys, maxv) == UNION {[S -> 1..maxv] : S \in SUBSET keys}

PrimaryInputs ==
    {DimensionsResult(idn[1], idn[2], d, "Wikidata", "https://www.wikidata.org/wiki/Q1",
                      c, ev, <<"rows">>) :
        idn \in {<<NoneStr, NoneStr>>, <<"Q1", "n1">>},
        d \in Dicts(MergeAxes, MaxVal), c \in Confs, ev \in {<<>>, <<"e1">>}}

SecondaryInputs ==
    {DimensionsResult(idn[1], idn[2], d, "schema.org", "https://shop.example/p",
                      c, <<"e2">>, <<"data">>) :
        idn \in {<<NoneStr, NoneStr>>, <<"Q2", "n2">>},
        d \in Dicts(MergeAxes, MaxVal), c \in Confs}

----------------------------------------------------------------------------
(* SpecMerge: merge_missing applied to every pair of inputs *)

InitMerge ==
    /\ primary \in PrimaryInputs
    /\ secondary \in SecondaryInputs
    /\ merged = None
    /\ selfMerged = None
    /\ FoldIdle /\ UnitIdle /\ ParseIdle /\ FetchIdle /\ ApiIdle /\ OthersIdle /\ TempIdle

\* merged = primary.merge_missing(secondary)
Merge ==
    /\ primary # None
    /\ merged = None
    /\ merged' = merge_missing(primary, secondary)
    /\ UNCHANGED <<primary, secondary, selfMerged>>
    /\ UNCHANGED <<foldVars, unitVars, parseVars, fetchVars, apiVars, soVars, wdVars, propVars, tempVars>>

\* selfMerged = primary.merge_missing(primary)
MergeSelf ==
    /\ merged # None
    /\ selfMerged = None
    /\ selfMerged' = merge_missing(primary, primary)
    /\ UNCHANGED <<primary, secondary, merged>>
    /\ UNCHANGED <<foldVars, unitVars, parseVars, fetchVars, apiVars, soVars, wdVars, propVars, tempVars>>

NextMerge == Merge \/ MergeSelf

SpecMerge == InitMerge /\ [][NextMerge]_vars

----------------------------------------------------------------------------
(* SpecFold: the left-to-right fold of an ordered list of provider results *)

\* Number of provider results folded.
NumResults == 3

FoldAxes == {"L", "W"}

FoldSources == <<"Wikidata", "schema.org", "Wikipedia infobox", "provider4", "provider5">>
FoldUrls == <<"url1", "url2", "url3", "url4", "url5">>
FoldEvidence == <<"e1", "e2", "e3", "e4", "e5">>

\* The results a provider at position i can give: any axes, any confidence.
\* Every axis value is i, so that a merged value shows which input it is from.
FoldInputs(i) ==
    {DimensionsResult(NoneStr, NoneStr, d, FoldSources[i], FoldUrls[i], c,
                      <<FoldEvidence[i]>>, <<FoldSources[i]>>) :
        d \in UNION {[S -> {i}] : S \in SUBSET FoldAxes}, c \in Confs}

InitFold ==
    /\ results \in {rs \in [1..NumResults -> UNION {FoldInputs(i) : i \in 1..NumResults}] :
                        \A i \in 1..NumResults : rs[i] \in FoldInputs(i)}
    /\ n = 0
    /\ acc = None
    /\ regrouped = None
    /\ MergeIdle /\ UnitIdle /\ ParseIdle /\ FetchIdle /\ ApiIdle /\ OthersIdle /\ TempIdle

\* a.merge_missing(b.merge_missing(c. ...)) over rs[i..Len(rs)]
RECURSIVE MergeRight(_, _)
MergeRight(rs, i) ==
    IF i = Len(rs) THEN rs[i] ELSE merge_missing(rs[i], MergeRight(rs, i + 1))

\* The accumulator starts as the first result.
FoldStart ==
    /\ n = 0
    /\ acc' = results[1]
    /\ n' = 1
    /\ UNCHANGED <<results, regrouped>>
    /\ UNCHANGED <<mergeVars, unitVars, parseVars, fetchVars, apiVars, soVars, wdVars, propVars, tempVars>>

\* best = best.merge_missing(next)
FoldStep ==
    /\ n >= 1
    /\ n < Len(results)
    /\ acc' = merge_missing(acc, results[n + 1])
    /\ n' = n + 1
    /\ UNCHANGED <<results, regrouped>>
    /\ UNCHANGED <<mergeVars, unitVars, parseVars, fetchVars, apiVars, soVars, wdVars, propVars, tempVars>>

\* The same results merged with the other grouping.
Regroup ==
    /\ n = Len(results)
    /\ regrouped = None
    /\ regrouped' = MergeRight(results, 1)
    /\ UNCHANGED <<results, n, acc>>
    /\ UNCHANGED <<mergeVars, unitVars, parseVars, fetchVars, apiVars, soVars, wdVars, propVars, tempVars>>

NextFold == FoldStart \/ FoldStep \/ Regroup

SpecFold == InitFold /\ [][NextFold]_vars

----------------------------------------------------------------------------
(* SpecUnits: to_mm applied to every amount and unit identifier *)

\* Largest whole amount converted.
MaxAmount == 3

Amounts == {Dec(10 * i + f, 1) : i \in -1..MaxAmount, f \in {0, 5}}

\* str.capitalize()
Capitalize(s) == [i \in 1..Len(s) |-> IF i = 1 THEN UpperChar(s[i]) ELSE LowerChar(s[i])]

\* Strings that are keys of no table, in any letter case.
UnknownUnits ==
    {<<>>, <<"y", "d">>, <<"k", "m">>, <<"m", "i", "l", "e", "s">>,
     <<"Q", "1", "1", "5", "7", "3">>, <<"m", " ", "m">>}

\* The table keys and the unknown strings, as written, in upper case, in
\* lower case and capitalized, bare and with whitespace around them.
UnitInputs ==
    LET raw == (DOMAIN WIKIDATA_UNIT_TO_MM) \cup (DOMAIN UNITCODE_TO_MM)
                   \cup (DOMAIN SYMBOL_TO_MM) \cup UnknownUnits
        cased == UNION {{r, Upper(r), Lower(r), Capitalize(r)} : r \in raw}
    IN  {NoneText} \cup
        UNION {{c, <<" ">> \o c, c \o <<" ">>, <<"\t">> \o c \o <<" ">>} : c \in cased}

InitUnits ==
    /\ argAmount \in Amounts
    /\ argUnit \in UnitInputs
    /\ mm = None
    /\ converted = FALSE
    /\ MergeIdle /\ FoldIdle /\ ParseIdle /\ FetchIdle /\ ApiIdle /\ OthersIdle /\ TempIdle

\* mm = to_mm(amount, unit)
Convert ==
    /\ ~converted
    /\ mm' = to_mm(argAmount, argUnit)
    /\ converted' = TRUE
    /\ UNCHANGED <<argAmount, argUnit>>
    /\ UNCHANGED <<mergeVars, foldVars, parseVars, fetchVars, apiVars, soVars, wdVars, propVars, tempVars>>

NextUnits == Convert

SpecUnits == InitUnits /\ [][NextUnits]_vars

----------------------------------------------------------------------------
(* SpecParse: normalize_dims_from_text applied to dimension texts *)

\* Numbers as they are written in a text, each with its value: the first, the
\* second and the third number of a triplet.
FirstNumbers ==
    {[written |-> <<"1", "5", "2">>, value |-> Dec(152, 0)],
     [written |-> <<"1", ",", "5">>, value |-> Dec(15, 1)],
     [written |-> <<"1", "2", "3", "4", "5">>, value |-> Dec(12345, 0)],
     [written |-> <<"5", ".", "9", "8", "4", "2", "5">>, value |-> Dec(598425, 5)]}

SecondNumbers ==
    {[written |-> <<"1", "0", "6">>, value |-> Dec(106, 0)],
     [written |-> <<"1", ",", "5">>, value |-> Dec(15, 1)],
     [written |-> <<"1", "2", "3", "4", "5">>, value |-> Dec(12345, 0)]}

ThirdNumbers ==
    {[written |-> <<"6", "0">>, value |-> Dec(60, 0)],
     [written |-> <<"1", ",", "5">>, value |-> Dec(15, 1)],
     [written |-> <<"1", "2", "3", "4", "5">>, value |-> Dec(12345, 0)],
     [written |-> <<"5", ".", "9", "8", "4", "2", "5">>, value |-> Dec(598425, 5)]}

\* What follows the last number: nothing (no unit), or a unit token, after a
\* blank or not, each with the millimetres per unit.
UnitTokens ==
    {[written |-> <<>>, factor |-> Dec(1, 0)],
     [written |-> <<" ", "m", "m">>, factor |-> MM_PER_UNIT],
     [written |-> <<"c", "m">>, factor |-> CM_PER_UNIT],
     [written |-> <<" ", "I", "N">>, factor |-> IN_PER_UNIT],
     [written |-> <<" ", "i", "n", "c", "h", "e", "s">>, factor |-> IN_PER_UNIT],
     [written |-> <<" ", "f", "t">>, factor |-> FT_PER_UNIT],
     [written |-> <<DOUBLE_PRIME>>, factor |-> IN_PER_UNIT],
     [written |-> <<" ", CAPITAL_I_WITH_DOT, "n">>, factor |-> IN_PER_UNIT],
     [written |-> <<" ", "c", "e", "n", "t", DOTLESS_I, "m", "e", "t", "r", "e">>, factor |-> CM_PER_UNIT]}

\* Blanks around the separators.
Gaps == {<<>>, <<" ">>}

\* Text before and after the dimensions.
Prefixes == {<<>>, <<"S", "i", "z", "e", ":", " ">>}
Suffixes == {<<>>, <<" ", "a", "p", "p", "r", "o", "x">>}

\* Single values, for texts that have no triplet.
SingleTokens ==
    {[written |-> <<"4", "5">>, value |-> Dec(45, 0)],
     [written |-> <<"0", ",", "8">>, value |-> Dec(8, 1)]}

TripletShapes ==
    {[kind |-> "triplet", a |-> a, b |-> b, c |-> c, sep |-> sep, gap |-> gap,
      unit |-> u, prefix |-> pre, suffix |-> suf] :
        a \in FirstNumbers, b \in SecondNumbers, c \in ThirdNumbers,
        sep \in Separators, gap \in Gaps, u \in UnitTokens,
        pre \in Prefixes, suf \in Suffixes}

SingleShapes ==
    {[kind |-> "single", val |-> v, unit |-> u, prefix |-> pre, suffix |-> suf] :
        v \in SingleTokens, u \in UnitTokens, pre \in Prefixes, suf \in Suffixes}

\* The text written from a shape: "{prefix}{a} x {b} x {c}{unit}{suffix}".
TextOf(sh) ==
    IF sh.kind = "triplet"
        THEN sh.prefix \o sh.a.written \o sh.gap \o <<sh.sep>> \o sh.gap
                 \o sh.b.written \o sh.gap \o <<sh.sep>> \o sh.gap
                 \o sh.c.written \o sh.unit.written \o sh.suffix
        ELSE sh.prefix \o sh.val.written \o sh.unit.written \o sh.suffix

InitParse ==
    /\ shape \in TripletShapes \cup SingleShapes
    /\ argText = TextOf(shape)
    /\ parsed = None
    /\ normalized = FALSE
    /\ MergeIdle /\ FoldIdle /\ UnitIdle /\ FetchIdle /\ ApiIdle /\ OthersIdle /\ TempIdle

\* parsed = normalize_dims_from_text(text)
Normalize ==
    /\ shape # None
    /\ ~normalized
    /\ parsed' = normalize_dims_from_text(argText)
    /\ normalized' = TRUE
    /\ UNCHANGED <<argText, shape>>
    /\ UNCHANGED <<mergeVars, foldVars, unitVars, fetchVars, apiVars, soVars, wdVars, propVars, tempVars>>

NextParse == Normalize

SpecParse == InitParse /\ [][NextParse]_vars

----------------------------------------------------------------------------
(* The round trip through the free-text parser: a known triplet is written
   as "{L} x {W} x {H} mm" and the text is given to
   normalize_dims_from_text. *)

\* str() of a non-negative int.
RECURSIVE IntToDigits(_)
IntToDigits(k) == IF k < 10 THEN <<Digits[k + 1]>> ELSE IntToDigits(k \div 10) \o <<Digits[(k % 10) + 1]>>

RECURSIVE Zeros(_)
Zeros(k) == IF k <= 0 THEN <<>> ELSE <<"0">> \o Zeros(k - 1)

\* The exponent of Python's float repr, at least two digits.
ExponentDigits(k) == IF k < 10 THEN <<"0">> \o IntToDigits(k) ELSE IntToDigits(k)

\* Python's repr of the positive float with the significant digits ds and e
\* decimals: exponent notation below 1e-04, else the integer part, a point
\* and the decimals ("152.0", "1.5", "0.0005", "1e-05").
ReprOfDigits(ds, e) ==
    IF Len(ds) - 1 - e < -4
        THEN <<ds[1]>> \o (IF Len(ds) > 1 THEN <<".">> \o Tail(ds) ELSE <<>>)
                 \o <<"e", "-">> \o ExponentDigits(e + 1 - Len(ds))
    ELSE IF e = 0 THEN ds \o <<".", "0">>
    ELSE IF Len(ds) > e
        THEN SubSeq(ds, 1, Len(ds) - e) \o <<".">> \o SubSeq(ds, Len(ds) - e + 1, Len(ds))
    ELSE <<"0", ".">> \o Zeros(e - Len(ds)) \o ds

\* "{x}" in an f-string, for a positive float x.
FormatFloat(x) == ReprOfDigits(IntToDigits(x.m), x.e)

\* f"{L} x {W} x {H} mm"
FormatTriplet(dims) == FormatFloat(dims["L"]) \o <<" ", "x", " ">> \o FormatFloat(dims["W"]) \o <<" ", "x", " ">> \o FormatFloat(dims["H"]) \o <<" ", "m", "m">>

\* The known values: 152.0, 60.0, 1.5, 59.84, 12345.0, 0.0005, 0.00002.
KnownValues == {Dec(152, 0), Dec(60, 0), Dec(15, 1), Dec(5984, 2), Dec(12345, 0), Dec(5, 4), Dec(2, 5)}

KnownTriplets == [{"L", "W", "H"} -> KnownValues]

InitRoundTrip ==
    /\ shape \in {[kind |-> "known", dims |-> d] : d \in KnownTriplets}
    /\ argText = <<>>
    /\ parsed = None
    /\ normalized = FALSE
    /\ MergeIdle /\ FoldIdle /\ UnitIdle /\ FetchIdle /\ ApiIdle /\ OthersIdle /\ TempIdle

\* text = f"{L} x {W} x {H} mm"
Format ==
    /\ argText = <<>>
    /\ argText' = FormatTriplet(shape.dims)
    /\ UNCHANGED <<shape, parsed, normalized>>
    /\ UNCHANGED <<mergeVars, foldVars, unitVars, fetchVars, apiVars, soVars, wdVars, propVars, tempVars>>

\* parsed = normalize_dims_from_text(text)
Reparse ==
    /\ argText # <<>>
    /\ ~normalized
    /\ parsed' = normalize_dims_from_text(argText)
    /\ normalized' = TRUE
    /\ UNCHANGED <<argText, shape>>
    /\ UNCHANGED <<mergeVars, foldVars, unitVars, fetchVars, apiVars, soVars, wdVars, propVars, tempVars>>

NextRoundTrip == Format \/ Reparse

SpecRoundTrip == InitRoundTrip /\ [][NextRoundTrip]_vars

----------------------------------------------------------------------------
(* fetcher.py: fetch_dimensions.  The identifier has been resolved and the
   calls to the Wikidata provider and to the schema.org provider (one call
   for each candidate URL) run concurrently and complete in any order; the
   results are folded when all of them have completed; the Wikipedia
   fallback follows. *)

NumUrls == 2

WIKIDATA == <<"Wikidata", 0>>
WIKIPEDIA == <<"Wikipedia", 0>>
SchemaOrg(i) == <<"schema.org", i>>
Urls == 1..NumUrls
SchemaOrgs == {SchemaOrg(i) : i \in Urls}

\* The outcome of a provider call that raises an exception.
Raise == [exception |-> TRUE]

Found(o) == o # None /\ o # Raise

LWH == {"L", "W", "H"}

WikidataResult(dims_mm, confidence) == DimensionsResult("Q1", "label", dims_mm, "Wikidata", <<"https://www.wikidata.org/wiki/", 0>>, confidence, << <<"SPARQL rows", 0>> >>, [rows |-> TRUE])

SchemaOrgResult(i, dims_mm) == DimensionsResult(NoneStr, NoneStr, dims_mm, "schema.org", <<"url", i>>, CONF_SCHEMA_ORG, << <<"schema.org Product fields from", i>> >>, [product |-> TRUE])

WikipediaResult_most_trusted(dims_mm) == DimensionsResult(NoneStr, NoneStr, dims_mm, "Wikipedia infobox", <<"https://en.wikipedia.org/wiki/", 0>>, CONF_SCHEMA_ORG + 1, << <<"Wikipedia infobox fields", 0>> >>, [infobox |-> TRUE])

WikipediaResult(dims_mm) == DimensionsResult(NoneStr, NoneStr, dims_mm, "Wikipedia infobox", <<"https://en.wikipedia.org/wiki/", 0>>, CONF_WIKIPEDIA, << <<"Wikipedia infobox fields", 0>> >>, [infobox |-> TRUE])

WikidataAnswers == {None, Raise} \cup {WikidataResult(d, c) : d \in {Table({<<"H", 600>>}), Table({<<"L", 610>>, <<"W", 620>>, <<"H", 630>>})}, c \in {CONF_WIKIDATA_BASE, CONF_WIKIDATA_BASE + 10}}

SchemaOrgAnswers(i) == {None, Raise} \cup {SchemaOrgResult(i, d) : d \in {Table({<<"L", 100 + i>>, <<"W", 200 + i>>}), Table({<<"DIAMETER", 300 + i>>})}}

WikipediaAnswers == {None, Raise} \cup {WikipediaResult(d) : d \in {Table({<<"L", 510>>}), Table({<<"L", 510>>, <<"W", 520>>, <<"H", 530>>})}}

\* The concurrent calls, in priority order.
PriorityOrder == <<WIKIDATA>> \o [i \in Urls |-> SchemaOrg(i)]

\* The calls fetch_dimensions starts concurrently: the Wikidata provider when
\* an identifier is known, the schema.org provider for every URL.
Launched(id) == (IF Falsy(id) THEN {} ELSE {WIKIDATA}) \cup SchemaOrgs

\* A concurrent call that fails counts as a result of none.
TryProvider(outcome) == IF outcome = Raise THEN None ELSE outcome

\* best = r if not best else best.merge_missing(r), for a result r that is
\* not none.
FoldOne(b, r) == IF r = None THEN b ELSE IF b = None THEN r ELSE merge_missing(b, r)

RECURSIVE FoldFrom(_, _, _, _)
FoldFrom(order, i, got, b) == IF i > Len(order) THEN b ELSE FoldFrom(order, i + 1, got, FoldOne(b, IF order[i] \in DOMAIN got THEN got[order[i]] ELSE None))

\* The fold of the completed calls' results in priority order.
FoldInPriorityOrder(got) == FoldFrom(PriorityOrder, 1, got, None)

WikipediaWanted_without_label(b, name) == ~(b # None /\ LWH \subseteq DOMAIN b.dims_mm)

\* if not (best and {"L", "W", "H"}.issubset(best.dims_mm.keys())) and label
WikipediaWanted(b, name) == ~(b # None /\ LWH \subseteq DOMAIN b.dims_mm) /\ ~Falsy(name)

TryWikipedia_propagating(outcome) == outcome

\* try: wi = await fetch_wikipedia_dimensions(label)
\* except Exception: wi = None
TryWikipedia(outcome) == IF outcome = Raise THEN None ELSE outcome

WikipediaFold_wikipedia_first(b, wi) == IF wi = None THEN b ELSE IF b = None THEN wi ELSE merge_missing(wi, b)

\* if wi: best = wi if not best else best.merge_missing(wi)
WikipediaFold(b, wi) == IF wi = None THEN b ELSE IF b = None THEN wi ELSE merge_missing(b, wi)

InitFetch ==
    /\ qid \in {NoneStr, "Q1"}
    /\ label \in {NoneStr, "label"}
    /\ answers \in [{WIKIDATA} -> IF Falsy(qid) THEN {None} ELSE WikidataAnswers] \X [{WIKIPEDIA} -> IF Falsy(label) THEN {None} ELSE WikipediaAnswers] \X [Urls -> UNION {SchemaOrgAnswers(i) : i \in Urls}]
    /\ \A i \in Urls : answers[3][i] \in SchemaOrgAnswers(i)
    /\ invoked = {}
    /\ fetched = <<>>
    /\ arrived = <<>>
    /\ best = None
    /\ pc = "start"
    /\ raised = FALSE
    /\ MergeIdle /\ FoldIdle /\ UnitIdle /\ ParseIdle /\ ApiIdle /\ OthersIdle /\ TempIdle

\* What the provider p answers in this run.
AnswerOf(p) == IF p = WIKIDATA THEN answers[1][WIKIDATA] ELSE IF p = WIKIPEDIA THEN answers[2][WIKIPEDIA] ELSE answers[3][p[2]]

\* The concurrent calls start.
Launch ==
    /\ pc = "start"
    /\ invoked' = Launched(qid)
    /\ pc' = "gather"
    /\ UNCHANGED <<qid, label, answers, fetched, arrived, best, raised>>
    /\ UNCHANGED <<mergeVars, foldVars, unitVars, parseVars, apiVars, soVars, wdVars, propVars, tempVars>>

\* The call to provider p completes.
Complete(p) ==
    /\ pc = "gather"
    /\ p \in invoked
    /\ p \notin DOMAIN fetched
    /\ fetched' = [q \in (DOMAIN fetched) \cup {p} |-> IF q = p THEN TryProvider(AnswerOf(p)) ELSE fetched[q]]
    /\ arrived' = Append(arrived, p)
    /\ UNCHANGED <<qid, label, answers, invoked, best, pc, raised>>
    /\ UNCHANGED <<mergeVars, foldVars, unitVars, parseVars, apiVars, soVars, wdVars, propVars, tempVars>>

\* All the concurrent calls have completed: their results are folded.
Fold ==
    /\ pc = "gather"
    /\ DOMAIN fetched = invoked
    /\ best' = FoldInPriorityOrder(fetched)
    /\ pc' = "wikipedia"
    /\ UNCHANGED <<qid, label, answers, invoked, fetched, arrived, raised>>
    /\ UNCHANGED <<mergeVars, foldVars, unitVars, parseVars, apiVars, soVars, wdVars, propVars, tempVars>>

\* 3) Wikipedia fallback, then return best, resolved_qid
Wikipedia ==
    /\ pc = "wikipedia"
    /\ IF WikipediaWanted(best, label)
       THEN LET wi == TryWikipedia(AnswerOf(WIKIPEDIA))
            IN  /\ invoked' = invoked \cup {WIKIPEDIA}
                /\ IF wi = Raise
                   THEN raised' = TRUE /\ pc' = "raised" /\ best' = best
                   ELSE raised' = FALSE /\ pc' = "returned" /\ best' = WikipediaFold(best, wi)
       ELSE /\ pc' = "returned"
            /\ UNCHANGED <<invoked, best, raised>>
    /\ UNCHANGED <<qid, label, answers, fetched, arrived>>
    /\ UNCHANGED <<mergeVars, foldVars, unitVars, parseVars, apiVars, soVars, wdVars, propVars, tempVars>>

\* models.py: a response model that does not validate.
ValidationError == [validation_error |-> TRUE]

\* class Dimensions(BaseModel): L: float, W: float, H: float, all required;
\* other keys are ignored.
Dimensions(dims_mm) == IF LWH \subseteq DOMAIN dims_mm THEN [k \in LWH |-> dims_mm[k]] ELSE ValidationError

\* class DimensionsResponse(BaseModel): id: str, name: str, dims_mm:
\* Dimensions, source: str, confidence: float, all required; None is not a str.
DimensionsResponse(id, name, dims_mm, source, confidence) ==
    IF id = NoneStr \/ name = NoneStr \/ Dimensions(dims_mm) = ValidationError
        THEN ValidationError
        ELSE [id |-> id, name |-> name, dims_mm |-> Dimensions(dims_mm), source |-> source, confidence |-> confidence]

HTTP_OK == 200
HTTP_NOT_FOUND == 404
HTTP_INTERNAL_SERVER_ERROR == 500

\* The reply with the response model body, 500 when the model does not
\* validate.
ReplyWith(body) == IF body = ValidationError THEN [status |-> HTTP_INTERNAL_SERVER_ERROR, body |-> None] ELSE [status |-> HTTP_OK, body |-> body]

\* main.py: the /dimensions route, after fetch_dimensions has returned
\* result, resolved_qid.
DimensionsReply(result, resolved_qid, id) ==
    IF result = None THEN [status |-> HTTP_NOT_FOUND, body |-> None]
    ELSE ReplyWith(DimensionsResponse(Or(resolved_qid, id), result.name, result.dims_mm, result.source, result.confidence))

\* The /dimensions route replies.
dimensions ==
    /\ pc = "returned"
    /\ reply = None
    /\ reply' = DimensionsReply(best, qid, qid)
    /\ pc' = "replied"
    /\ UNCHANGED <<qid, label, answers, invoked, fetched, arrived, best, raised>>
    /\ UNCHANGED <<mergeVars, foldVars, unitVars, parseVars, soVars, wdVars, propVars, tempVars>>

NextFetch ==
    \/ Launch
    \/ \E p \in {WIKIDATA} \cup SchemaOrgs : Complete(p)
    \/ Fold
    \/ Wikipedia
    \/ dimensions

SpecFetch == InitFetch /\ [][NextFetch]_vars

----------------------------------------------------------------------------
(* providers/schema_org.py: _extract_from_product and fetch_schema_org *)

\* A QuantitativeValue: its value and its unit code.
QuantitativeValue(value, unitCode) == [value |-> value, unitCode |-> unitCode]

\* qv_to_mm: the millimetres of a QuantitativeValue, None when its unit is
\* not known.
qv_to_mm(qv) == to_mm(qv.value, qv.unitCode)

\* dims.setdefault(key, value)
SetDefault(dims, key, value) == IF key \in DOMAIN dims THEN dims ELSE DictMerge(dims, Table({<<key, value>>}))

\* The typed quantity fields of a product, as <<out_key, QuantitativeValue>>
\* in the order they are read from the j-th on: dims[out_key] = mm
RECURSIVE TypedDims(_, _, _)
TypedDims(quantities, j, dims) == IF j > Len(quantities) THEN dims ELSE TypedDims(quantities, j + 1, IF qv_to_mm(quantities[j][2]) = None THEN dims ELSE DictMerge(dims, Table({<<quantities[j][1], qv_to_mm(quantities[j][2])>>})))

FillFrom_parsed_over_dims(parsed_dims, dims) == IF parsed_dims = None THEN dims ELSE DictMerge(dims, parsed_dims)

\* if parsed: dims = {**parsed, **dims}
FillFrom(parsed_dims, dims) == IF parsed_dims = None THEN dims ELSE DictMerge(parsed_dims, dims)

\* mm = qv_to_mm(size); if mm is not None: dims.setdefault("L", mm)
SizeQuantity(dims, size_mm) == IF size_mm = None THEN dims ELSE SetDefault(dims, "L", size_mm)

\* size as QuantitativeValue or string
SizeDims(dims, size) ==
    IF size = None THEN dims
    ELSE IF size.kind = "dict" THEN SizeQuantity(dims, qv_to_mm(size.qv))
    ELSE FillFrom(normalize_dims_from_text(size.text), dims)

\* One additionalProperty entry: name is read and not used;
\* parsed = normalize_dims_from_text(str(val)); if parsed: dims = {**parsed, **dims}
AdditionalProperty(ap, dims) == FillFrom(normalize_dims_from_text(ap.value), dims)

\* for ap in add_props, from the j-th on; an entry with a falsy value is
\* skipped.
RECURSIVE AddPropDims(_, _, _)
AddPropDims(add_props, j, dims) == IF j > Len(add_props) THEN dims ELSE AddPropDims(add_props, j + 1, IF add_props[j].value = <<>> THEN dims ELSE AdditionalProperty(add_props[j], dims))

_extract_from_product(product) == AddPropDims(product.additionalProperty, 1, SizeDims(TypedDims(product.quantities, 1, EmptyDict), product.size))

\* The json-ld blobs whose @type is Product, in page order.
Candidates(blobs) == SelectSeq(blobs, LAMBDA b : b.isProduct)

\* for prod in candidates: dims.update(_extract_from_product(prod))
RECURSIVE UpdateAll(_, _, _)
UpdateAll(candidates, j, dims) == IF j > Len(candidates) THEN dims ELSE UpdateAll(candidates, j + 1, DictMerge(dims, _extract_from_product(candidates[j])))

\* if not dims: return None; return DimensionsResult(...)
ResultOrNone(dims) == IF dims = EmptyDict THEN None ELSE SchemaOrgResult(1, dims)


\* fetch_schema_org, up to the page: extruct missing returns None; a failed
\* GET and raise_for_status on a status outside 2xx raise.
GetPage(resp) ==
    IF ~resp.extruct THEN [pc |-> "returned", result |-> None]
    ELSE IF resp.kind # "response" THEN [pc |-> "raised", result |-> Raise]
    ELSE IF resp.status \notin 200..299 THEN [pc |-> "raised", result |-> Raise]
    ELSE [pc |-> "extract", result |-> None]

\* Texts found in product fields.
TEXT_TRIPLET_MM == <<"1", "5", "2", " ", "x", " ", "1", "0", "6", " ", "x", " ", "6", "0", " ", "m", "m">>
TEXT_TRIPLET_CM == <<"1", "0", " ", "x", " ", "2", "0", " ", "x", " ", "3", "0", " ", "c", "m">>
TEXT_45_MM == <<"4", "5", " ", "m", "m">>
TEXT_2_MM == <<"2", " ", "m", "m">>
TEXT_RED == <<"r", "e", "d">>
NAME_DIAMETER == <<"D", "i", "a", "m", "e", "t", "e", "r">>
NAME_THICKNESS == <<"T", "h", "i", "c", "k", "n", "e", "s", "s">>
NAME_COLOR == <<"C", "o", "l", "o", "r">>
NAME_SIZE == <<"S", "i", "z", "e">>
CODE_MMT == <<"M", "M", "T">>
CODE_CMT == <<"C", "M", "T">>

QuantityInputs ==
    {<<>>,
     << <<"H", QuantitativeValue(Dec(7, 0), CODE_MMT)>> >>,
     << <<"L", QuantitativeValue(Dec(10, 0), CODE_CMT)>>, <<"W", QuantitativeValue(Dec(20, 0), CODE_MMT)>> >>}

SizeInputs ==
    {None,
     [kind |-> "str", text |-> TEXT_TRIPLET_MM],
     [kind |-> "str", text |-> TEXT_45_MM],
     [kind |-> "dict", qv |-> QuantitativeValue(Dec(30, 0), CODE_MMT)],
     [kind |-> "dict", qv |-> QuantitativeValue(Dec(30, 0), NoneText)]}

AdditionalPropertyInputs ==
    {<<>>,
     <<[name |-> NAME_DIAMETER, value |-> TEXT_45_MM]>>,
     <<[name |-> NAME_DIAMETER, value |-> <<>>]>>,
     <<[name |-> NAME_COLOR, value |-> TEXT_RED], [name |-> NAME_DIAMETER, value |-> TEXT_45_MM]>>,
     <<[name |-> NAME_THICKNESS, value |-> TEXT_2_MM], [name |-> NAME_DIAMETER, value |-> TEXT_45_MM]>>,
     <<[name |-> NAME_SIZE, value |-> TEXT_TRIPLET_CM]>>}

Product(quantities, size, add_props) == [isProduct |-> TRUE, quantities |-> quantities, size |-> size, additionalProperty |-> add_props]

Products == {Product(q, s, a) : q \in QuantityInputs, s \in SizeInputs, a \in AdditionalPropertyInputs}

\* A json-ld blob that is not a Product.
OtherBlob == [isProduct |-> FALSE, quantities |-> <<>>, size |-> [kind |-> "str", text |-> TEXT_TRIPLET_MM], additionalProperty |-> <<>>]

\* The blobs of the pages with more than one blob.
FewBlobs ==
    {OtherBlob,
     Product(<<>>, [kind |-> "str", text |-> TEXT_TRIPLET_MM], <<>>),
     Product(<<>>, None, <<[name |-> NAME_DIAMETER, value |-> TEXT_45_MM]>>),
     Product(<< <<"H", QuantitativeValue(Dec(7, 0), CODE_MMT)>> >>, None, <<>>)}

MaxBlobs == 2

Pages == {<<>>} \cup {<<b>> : b \in Products \cup {OtherBlob}} \cup UNION {[1..k -> FewBlobs] : k \in 2..MaxBlobs}

Responses ==
    {[extruct |-> FALSE, kind |-> "response", status |-> HTTP_OK, blobs |-> <<>>]}
        \cup {[extruct |-> TRUE, kind |-> k, status |-> 0, blobs |-> <<>>] : k \in {"network error", "timeout"}}
        \cup {[extruct |-> TRUE, kind |-> "response", status |-> st, blobs |-> <<>>] : st \in {301, 404, 500}}
        \cup {[extruct |-> TRUE, kind |-> "response", status |-> st, blobs |-> p] : st \in {HTTP_OK, 204}, p \in Pages}

InitSchemaOrg ==
    /\ response \in Responses
    /\ sopc = "start"
    /\ soResult = None
    /\ MergeIdle /\ FoldIdle /\ UnitIdle /\ ParseIdle /\ FetchIdle /\ ApiIdle
    /\ WdIdle /\ PropIdle /\ TempIdle

\* r = await client.get(url); r.raise_for_status()
Get ==
    /\ sopc = "start"
    /\ sopc' = GetPage(response).pc
    /\ soResult' = GetPage(response).result
    /\ UNCHANGED response
    /\ UNCHANGED <<mergeVars, foldVars, unitVars, parseVars, fetchVars, apiVars, wdVars, propVars, tempVars>>

\* The Product blobs are extracted and the result is returned.
Extract ==
    /\ sopc = "extract"
    /\ soResult' = ResultOrNone(UpdateAll(Candidates(response.blobs), 1, EmptyDict))
    /\ sopc' = "returned"
    /\ UNCHANGED response
    /\ UNCHANGED <<mergeVars, foldVars, unitVars, parseVars, fetchVars, apiVars, wdVars, propVars, tempVars>>

NextSchemaOrg == Get \/ Extract

SpecSchemaOrg == InitSchemaOrg /\ [][NextSchemaOrg]_vars

----------------------------------------------------------------------------
(* wikidata.py: fetch_wikidata_dimensions, from the rows of the query on *)

CONF_WIKIDATA_REFS == 10
CONF_WIKIDATA_CAP == 95

Min(x, y) == IF x <= y THEN x ELSE y

LengthOrDepth_overwrite(dims, row_mm) == DictMerge(dims, Table({<<"L", row_mm>>}))

\* elif prop in ("length", "depth"): dims.setdefault("L", mm)
LengthOrDepth(dims, row_mm) == SetDefault(dims, "L", row_mm)

RowDims_prop_as_key(dims, prop, row_mm) == IF prop \in {"length", "depth"} THEN LengthOrDepth(dims, row_mm) ELSE DictMerge(dims, Table({<<prop, row_mm>>}))

\* The if/elif chain on prop: dims after a row whose unit normalizes.
RowDims(dims, prop, row_mm) ==
    IF prop = "height" THEN DictMerge(dims, Table({<<"H", row_mm>>}))
    ELSE IF prop = "width" THEN DictMerge(dims, Table({<<"W", row_mm>>}))
    ELSE IF prop \in {"length", "depth"} THEN LengthOrDepth(dims, row_mm)
    ELSE IF prop = "thickness" THEN DictMerge(dims, Table({<<"T", row_mm>>}))
    ELSE IF prop = "diameter" THEN DictMerge(dims, Table({<<"DIAMETER", row_mm>>}))
    ELSE dims

\* mm = to_mm(amt, unit_uri)
RowMm(b) == to_mm(b.amount, b.unit)

\* base_conf = 0.8; if refs_total > 0: base_conf += 0.1; min(base_conf, 0.95)
Confidence(refs) == Min(IF refs > 0 THEN CONF_WIKIDATA_BASE + CONF_WIKIDATA_REFS ELSE CONF_WIKIDATA_BASE, CONF_WIKIDATA_CAP)

UNIT_MM == <<WD, "Q", "1", "7", "4", "7", "8", "9">>
UNIT_CM == <<WD, "Q", "1", "7", "4", "7", "2", "8">>
\* A unit that is in no table.
UNIT_OTHER == <<WD, "Q", "1">>

Row(prop, amount, unit, refs) == [prop |-> prop, amount |-> amount, unit |-> unit, refs |-> refs, label |-> "label"]

\* The rows the query can return: every property with a unit that
\* normalizes or not and with references or not, and amounts of zero and
\* below.
RowInputs ==
    {Row(p, Dec(10, 0), UNIT_MM, 0) : p \in {"length", "depth", "height", "thickness"}}
        \cup {Row(p, Dec(2, 0), UNIT_CM, 1) : p \in {"length", "depth", "height", "thickness"}}
        \cup {Row(p, Dec(5, 0), UNIT_OTHER, 3) : p \in {"length", "depth", "height", "thickness"}}
        \cup {Row("height", Dec(5, 0), NoneText, 0), Row("width", Dec(30, 0), UNIT_MM, 0), Row("diameter", Dec(45, 0), UNIT_MM, 0), Row("width", Dec(0, 0), UNIT_MM, 0), Row("diameter", Dec(0 - 3, 0), UNIT_CM, 2)}

MaxRows == 3

InitWikidata ==
    /\ wdRows \in UNION {[1..k -> RowInputs] : k \in 0..MaxRows}
    /\ wdNext = 1
    /\ wdDims = EmptyDict
    /\ refs_total = 0
    /\ wdLabel = NoneStr
    /\ wdResult = None
    /\ wdpc = "rows"
    /\ MergeIdle /\ FoldIdle /\ UnitIdle /\ ParseIdle /\ FetchIdle /\ ApiIdle
    /\ SoIdle /\ PropIdle /\ TempIdle

\* if not rows: return None
NoRows ==
    /\ wdpc = "rows"
    /\ wdRows = <<>>
    /\ wdpc' = "returned"
    /\ UNCHANGED <<wdRows, wdNext, wdDims, refs_total, wdLabel, wdResult>>
    /\ UNCHANGED <<mergeVars, foldVars, unitVars, parseVars, fetchVars, apiVars, soVars, propVars, tempVars>>

\* One pass of `for b in rows`: a row whose unit does not normalize is
\* skipped whole (continue), else its axis, refs and label are taken.
RowStep ==
    /\ wdpc = "rows"
    /\ wdRows # <<>>
    /\ wdNext <= Len(wdRows)
    /\ wdNext' = wdNext + 1
    /\ IF RowMm(wdRows[wdNext]) = None
       THEN UNCHANGED <<wdDims, refs_total, wdLabel>>
       ELSE /\ wdDims' = RowDims(wdDims, wdRows[wdNext].prop, RowMm(wdRows[wdNext]))
            /\ refs_total' = refs_total + wdRows[wdNext].refs
            /\ wdLabel' = wdRows[wdNext].label
    /\ UNCHANGED <<wdRows, wdResult, wdpc>>
    /\ UNCHANGED <<mergeVars, foldVars, unitVars, parseVars, fetchVars, apiVars, soVars, propVars, tempVars>>

\* if not dims: return None; return DimensionsResult(...), official
WikidataReturn ==
    /\ wdpc = "rows"
    /\ wdRows # <<>>
    /\ wdNext > Len(wdRows)
    /\ wdResult' = IF wdDims = EmptyDict THEN None ELSE DimensionsResult("Q1", wdLabel, wdDims, "Wikidata", <<"https://www.wikidata.org/wiki/", 0>>, Confidence(refs_total), << <<"SPARQL rows", Len(wdRows), refs_total>> >>, wdRows)
    /\ wdpc' = "returned"
    /\ UNCHANGED <<wdRows, wdNext, wdDims, refs_total, wdLabel>>
    /\ UNCHANGED <<mergeVars, foldVars, unitVars, parseVars, fetchVars, apiVars, soVars, propVars, tempVars>>

NextWikidata == NoRows \/ RowStep \/ WikidataReturn

SpecWikidata == InitWikidata /\ [][NextWikidata]_vars

----------------------------------------------------------------------------
(* services/proposals.py: generate_proposals.  Lengths and clearances are in
   tenths of a millimetre (42.0 is 420). *)

GRID_XY == 420
GRID_Z == 70
DEFAULT_CLEARANCE_SNUG == 3
DEFAULT_CLEARANCE_EASY == 8
WALL == 20
BASE == 30

\* math.ceil(x / y) for y > 0.
CeilDiv(x, y) == 0 - ((0 - x) \div y)

_slots_no_minimum(size_mm, clearance) == CeilDiv(size_mm + clearance + 2 * WALL, GRID_XY)

_slots(size_mm, clearance) == Max(1, CeilDiv(size_mm + clearance + 2 * WALL, GRID_XY))

_z_units(height_mm, clearance) == Max(1, CeilDiv(height_mm + clearance + BASE, GRID_Z))

\* compartments is 0 for None, its default.
Proposal(type, x_slots, y_slots, z_units, clearance, compartments) == [type |-> type, x_slots |-> x_slots, y_slots |-> y_slots, z_units |-> z_units, clearance |-> clearance, compartments |-> compartments]

snug(dims) == Proposal("snug", _slots(dims.L, DEFAULT_CLEARANCE_SNUG), _slots(dims.W, DEFAULT_CLEARANCE_SNUG), _z_units(dims.H, DEFAULT_CLEARANCE_SNUG), DEFAULT_CLEARANCE_SNUG, 0)

easy(dims) == Proposal("easy", _slots(dims.L, DEFAULT_CLEARANCE_EASY), _slots(dims.W, DEFAULT_CLEARANCE_EASY), _z_units(dims.H, DEFAULT_CLEARANCE_EASY), DEFAULT_CLEARANCE_EASY, 0)

multi(dims) == Proposal("multi", Max(snug(dims).x_slots, 2), Max(snug(dims).y_slots, 2), snug(dims).z_units, DEFAULT_CLEARANCE_EASY, 2)

generate_proposals_easy_first(dims) == <<easy(dims), snug(dims), multi(dims)>>

generate_proposals(dims) == <<snug(dims), easy(dims), multi(dims)>>

\* The item sizes: every 4.5 mm from -4.5 mm on, and the sizes around a slot
\* boundary (37.7 mm + 0.3 mm + 4 mm is one slot).
MaxSizeSteps == 12

ItemSizes == {45 * i : i \in (0 - 1)..MaxSizeSteps} \cup {375, 377, 378}

InitProposals ==
    /\ item \in [L : ItemSizes, W : ItemSizes, H : ItemSizes]
    /\ proposals = <<>>
    /\ MergeIdle /\ FoldIdle /\ UnitIdle /\ ParseIdle /\ FetchIdle /\ ApiIdle
    /\ SoIdle /\ WdIdle /\ TempIdle

\* proposals = generate_proposals(req)
Generate ==
    /\ proposals = <<>>
    /\ proposals' = generate_proposals(item)
    /\ UNCHANGED item
    /\ UNCHANGED <<mergeVars, foldVars, unitVars, parseVars, fetchVars, apiVars, soVars, wdVars, tempVars>>

NextProposals == Generate

SpecProposals == InitProposals /\ [][NextProposals]_vars

----------------------------------------------------------------------------
(* Every producer of a DimensionsResult or of a dims dict: merge_missing,
   the free-text parser, the schema.org and Wikidata providers and
   fetch_dimensions, each run from its own initial states. *)

InitResults == InitMerge \/ InitParse \/ InitSchemaOrg \/ InitWikidata \/ InitFetch

NextResults == NextMerge \/ NextParse \/ NextSchemaOrg \/ NextWikidata \/ NextFetch

SpecResults == InitResults /\ [][NextResults]_vars

----------------------------------------------------------------------------
(* src/main.py: the temp-file service.  Times are whole seconds; a path is
   the token and the extension of the file name; the handlers run one at a
   time. *)

\* The age in seconds above which a file is expired.
MAX_AGE == 300

HTTP_GONE == 410

\* filetype: pattern "^(stl|step)$"
Filetypes == {"stl", "step"}

\* width, in mm
Widths == {42, 84}

\* The number of calls of /generate.
MaxTokens == 2

\* The last value of the clock.
MaxTime == 453

\* The seconds between one step and the next.
Steps == {150, 151}

\* A token no call of /generate has returned.
UNKNOWN_TOKEN == 0

\* ext = "step" if filetype == "step" else "stl"
Ext(filetype) == IF filetype = "step" THEN "step" ELSE "stl"

\* os.path.join(TEMP_DIR, f"{token}.{ext}")
Path(token, ext) == <<token, ext>>

Expired_from_max_age(file, now) == now - file.mtime >= MAX_AGE

\* now - os.path.getmtime(path) > 300
Expired(file, now) == now - file.mtime > MAX_AGE

\* cleanup_temp_files: the directory without the files older than 5 minutes.
cleanup_temp_files(dir, now) == [p \in {q \in DOMAIN dir : ~Expired(dir[q], now)} |-> dir[p]]

\* cq.exporters.export(result, file_path): the directory with the new file.
Export(dir, path, file) == [p \in (DOMAIN dir) \cup {path} |-> IF p = path THEN file ELSE dir[p]]

\* os.remove(path)
Remove(dir, path) == [p \in (DOMAIN dir) \ {path} |-> dir[p]]

\* The file at a path, None when os.path.exists(path) is false.
FileAt(dir, path) == IF path \in DOMAIN dir THEN dir[path] ELSE None

\* download_file: the reply.
DownloadReply(file, now) ==
    IF file = None THEN [status |-> HTTP_NOT_FOUND, body |-> None]
    ELSE IF Expired(file, now) THEN [status |-> HTTP_GONE, body |-> None]
    ELSE [status |-> HTTP_OK, body |-> file]

\* download_file: the directory it leaves.
DownloadDir(dir, path, now) == IF path \in DOMAIN dir /\ Expired(dir[path], now) THEN Remove(dir, path) ELSE dir

InitTempFiles ==
    /\ clock = 0
    /\ TEMP_DIR = <<>>
    /\ issued = <<>>
    /\ download = None
    /\ MergeIdle /\ FoldIdle /\ UnitIdle /\ ParseIdle /\ FetchIdle /\ ApiIdle /\ OthersIdle

\* Time passes.
Tick ==
    /\ \E d \in Steps :
          /\ clock + d <= MaxTime
          /\ clock' = clock + d
    /\ UNCHANGED <<TEMP_DIR, issued, download>>
    /\ UNCHANGED <<mergeVars, foldVars, unitVars, parseVars, fetchVars, apiVars, soVars, wdVars, propVars>>

\* GET /generate: the token is a fresh uuid4, the Len(issued) + 1-th one.
generate_container ==
    /\ Len(issued) < MaxTokens
    /\ \E width \in Widths, filetype \in Filetypes :
          /\ TEMP_DIR' = Export(cleanup_temp_files(TEMP_DIR, clock), Path(Len(issued) + 1, Ext(filetype)), [mtime |-> clock, box |-> width])
          /\ issued' = Append(issued, [token |-> Len(issued) + 1, filetype |-> Ext(filetype), at |-> clock, box |-> width])
    /\ UNCHANGED <<clock, download>>
    /\ UNCHANGED <<mergeVars, foldVars, unitVars, parseVars, fetchVars, apiVars, soVars, wdVars, propVars>>

\* GET /download/{token}
download_file ==
    /\ \E token \in {UNKNOWN_TOKEN} \cup (1..Len(issued)), filetype \in Filetypes :
          /\ download' = [token |-> token, filetype |-> filetype, at |-> clock, had |-> FileAt(TEMP_DIR, Path(token, filetype)), reply |-> DownloadReply(FileAt(TEMP_DIR, Path(token, filetype)), clock)]
          /\ TEMP_DIR' = DownloadDir(TEMP_DIR, Path(token, filetype), clock)
    /\ UNCHANGED <<clock, issued>>
    /\ UNCHANGED <<mergeVars, foldVars, unitVars, parseVars, fetchVars, apiVars, soVars, wdVars, propVars>>

NextTempFiles == Tick \/ generate_container \/ download_file

SpecTempFiles == InitTempFiles /\ [][NextTempFiles]_vars

----------------------------------------------------------------------------
(* Claims about merge_missing on a pair (SpecMerge) *)

\* C1: the merged dims have exactly the axes of the two inputs; every axis of
\* the input with the strictly higher confidence has that input's value, every
\* axis only the other input has has the other input's value; on equal
\* confidences every axis has the value of an input that has the axis.
C1_MergePrecedence ==
    merged # None =>
        LET p == primary.dims_mm
            s == secondary.dims_mm
            m == merged.dims_mm
        IN  /\ DOMAIN m = (DOMAIN p) \cup (DOMAIN s)
            /\ primary.confidence > secondary.confidence =>
                  \A k \in DOMAIN m : m[k] = IF k \in DOMAIN p THEN p[k] ELSE s[k]
            /\ secondary.confidence > primary.confidence =>
                  \A k \in DOMAIN m : m[k] = IF k \in DOMAIN s THEN s[k] ELSE p[k]
            /\ primary.confidence = secondary.confidence =>
                  \A k \in DOMAIN m : \/ k \in DOMAIN p /\ m[k] = p[k]
                                      \/ k \in DOMAIN s /\ m[k] = s[k]

\* C1 witness: secondary has the higher confidence, both inputs have L with
\* different values, and only primary has W.
C1_Witness ==
    /\ merged # None
    /\ secondary.confidence > primary.confidence
    /\ "L" \in DOMAIN primary.dims_mm /\ "L" \in DOMAIN secondary.dims_mm
    /\ primary.dims_mm["L"] # secondary.dims_mm["L"]
    /\ "W" \in DOMAIN primary.dims_mm /\ "W" \notin DOMAIN secondary.dims_mm
    /\ merged.dims_mm["L"] = secondary.dims_mm["L"]
    /\ merged.dims_mm["W"] = primary.dims_mm["W"]

\* C3: on equal confidences the merged value of every axis of primary is
\* primary's and the merged source and source_url are primary's; in every
\* case the source and source_url are those of one input, and every axis of
\* that input has that input's value in the merged dims.
C3_TieFavorsPrimary ==
    merged # None =>
        /\ primary.confidence = secondary.confidence =>
              /\ \A k \in DOMAIN primary.dims_mm : merged.dims_mm[k] = primary.dims_mm[k]
              /\ merged.source = primary.source
              /\ merged.source_url = primary.source_url
        /\ \E w \in {primary, secondary} :
              /\ merged.source = w.source
              /\ merged.source_url = w.source_url
              /\ \A k \in DOMAIN w.dims_mm : merged.dims_mm[k] = w.dims_mm[k]

\* C3 witness: a tie in which both inputs have L with different values.
C3_Witness ==
    /\ merged # None
    /\ primary.confidence = secondary.confidence
    /\ "L" \in DOMAIN primary.dims_mm /\ "L" \in DOMAIN secondary.dims_mm
    /\ primary.dims_mm["L"] # secondary.dims_mm["L"]
    /\ merged.source = "Wikidata"

\* C4 as stated: merge_missing(a, a) has a's dims, source, source URL,
\* confidence and evidence list.
C4_Idempotent ==
    selfMerged # None =>
        /\ selfMerged.dims_mm = primary.dims_mm
        /\ selfMerged.source = primary.source
        /\ selfMerged.source_url = primary.source_url
        /\ selfMerged.confidence = primary.confidence
        /\ selfMerged.evidence = primary.evidence

\* C4 amended: merge_missing(a, a) has a's dims, source, source URL and
\* confidence, and its evidence list is a's evidence followed by a's evidence.
C4_IdempotentUpToEvidence ==
    selfMerged # None =>
        /\ selfMerged.dims_mm = primary.dims_mm
        /\ selfMerged.source = primary.source
        /\ selfMerged.source_url = primary.source_url
        /\ selfMerged.confidence = primary.confidence
        /\ selfMerged.evidence = primary.evidence \o primary.evidence

\* C4 witness: a result with an axis and one evidence string merged with itself.
C4_Witness ==
    /\ selfMerged # None
    /\ primary.dims_mm # EmptyDict
    /\ Len(primary.evidence) = 1
    /\ Len(selfMerged.evidence) = 2

----------------------------------------------------------------------------
(* Claims about the fold (SpecFold) *)

\* The largest confidence among rs[1..k].
RECURSIVE MaxConfidence(_, _)
MaxConfidence(rs, k) ==
    IF k = 1 THEN rs[1].confidence
    ELSE Max(MaxConfidence(rs, k - 1), rs[k].confidence)

\* C2: every merge of the fold gives the maximum of the accumulator's and the
\* folded result's confidence, the accumulator's confidence never decreases,
\* and after k results it is the maximum of their k confidences.
C2_ConfidenceIsMax ==
    /\ [][(n >= 1 /\ n' = n + 1) =>
            /\ acc'.confidence = Max(acc.confidence, results[n + 1].confidence)
            /\ acc'.confidence >= acc.confidence]_vars
    /\ [](n >= 1 => acc.confidence = MaxConfidence(results, n))

\* C2 witness: a fold whose accumulator's confidence was raised by the second
\* result and kept against a lower third one.
C2_Witness ==
    /\ n = 3
    /\ results[1].confidence < results[2].confidence
    /\ results[3].confidence < results[2].confidence
    /\ acc.confidence = results[2].confidence

\* C5: both groupings of the merges give the same dims_mm, confidence, source
\* and evidence, and the fold gives every axis the value of a result that has
\* the axis and whose confidence no other result that has the axis exceeds.
C5_Associative ==
    regrouped # None =>
        /\ acc.dims_mm = regrouped.dims_mm
        /\ acc.confidence = regrouped.confidence
        /\ acc.source = regrouped.source
        /\ acc.evidence = regrouped.evidence
        /\ \A k \in DOMAIN acc.dims_mm :
              \E i \in 1..Len(results) :
                  /\ k \in DOMAIN results[i].dims_mm
                  /\ acc.dims_mm[k] = results[i].dims_mm[k]
                  /\ \A j \in 1..Len(results) :
                        k \in DOMAIN results[j].dims_mm =>
                            results[j].confidence <= results[i].confidence

----------------------------------------------------------------------------
(* Claims about to_mm (SpecUnits) *)

\* C9 as stated: to_mm returns amount times the table factor for every key of
\* the URI table, of the unit-code table, and for every string whose lower
\* case is a key of the symbol table; it returns None for a None unit and for
\* every string that is in none of the tables, also after lowercasing.
C9_ToMm ==
    converted =>
        /\ argUnit \in DOMAIN WIKIDATA_UNIT_TO_MM =>
              mm = Mul(argAmount, WIKIDATA_UNIT_TO_MM[argUnit])
        /\ argUnit \in DOMAIN UNITCODE_TO_MM =>
              mm = Mul(argAmount, UNITCODE_TO_MM[argUnit])
        /\ (argUnit # NoneText /\ Lower(argUnit) \in DOMAIN SYMBOL_TO_MM) =>
              mm = Mul(argAmount, SYMBOL_TO_MM[Lower(argUnit)])
        /\ argUnit = NoneText => mm = None
        /\ ( /\ argUnit \notin DOMAIN WIKIDATA_UNIT_TO_MM
             /\ argUnit \notin DOMAIN UNITCODE_TO_MM
             /\ Lower(argUnit) \notin DOMAIN SYMBOL_TO_MM ) => mm = None

\* C9 amended: the symbol table is looked up with the unit stripped of the
\* whitespace around it and lowercased; to_mm returns None for a None unit and
\* for every string that is no key of the URI table or of the unit-code table
\* and whose stripped lower case is no key of the symbol table.
C9_ToMmStripped ==
    converted =>
        /\ argUnit \in DOMAIN WIKIDATA_UNIT_TO_MM =>
              mm = Mul(argAmount, WIKIDATA_UNIT_TO_MM[argUnit])
        /\ argUnit \in DOMAIN UNITCODE_TO_MM =>
              mm = Mul(argAmount, UNITCODE_TO_MM[argUnit])
        /\ (argUnit # NoneText /\ Lower(Strip(argUnit)) \in DOMAIN SYMBOL_TO_MM) =>
              mm = Mul(argAmount, SYMBOL_TO_MM[Lower(Strip(argUnit))])
        /\ argUnit = NoneText => mm = None
        /\ ( /\ argUnit \notin DOMAIN WIKIDATA_UNIT_TO_MM
             /\ argUnit \notin DOMAIN UNITCODE_TO_MM
             /\ Lower(Strip(argUnit)) \notin DOMAIN SYMBOL_TO_MM ) => mm = None

\* C9 witness: an amount in inches, written " In" with a leading blank, is
\* converted with the factor 25.4.
C9_Witness ==
    /\ converted
    /\ argUnit = <<" ", "I", "n">>
    /\ argAmount = Dec(15, 1)
    /\ mm = Dec(381, 1)

----------------------------------------------------------------------------
(* Claims about normalize_dims_from_text (SpecParse) *)

\* C10: for a text with a triplet "a x b x c [unit]" the result has exactly
\* the axes L, W, H with L = a * f, W = b * f, H = c * f, where f is the
\* millimetres per unit of the unit token that follows, and 1 when none does.
C10_TripletToLWH ==
    (normalized /\ shape.kind = "triplet") =>
        parsed = [k \in {"L", "W", "H"} |->
                     IF k = "L" THEN Mul(shape.a.value, shape.unit.factor)
                     ELSE IF k = "W" THEN Mul(shape.b.value, shape.unit.factor)
                     ELSE Mul(shape.c.value, shape.unit.factor)]

\* The same for the texts whose three numbers have at most four digits and at
\* most three decimals.
TripletWithinPattern ==
    (normalized /\ shape.kind = "triplet"
        /\ \A t \in {shape.a, shape.b, shape.c} :
              t.written \notin {<<"1", "2", "3", "4", "5">>,
                                <<"5", ".", "9", "8", "4", "2", "5">>}) =>
        parsed = [k \in {"L", "W", "H"} |->
                     IF k = "L" THEN Mul(shape.a.value, shape.unit.factor)
                     ELSE IF k = "W" THEN Mul(shape.b.value, shape.unit.factor)
                     ELSE Mul(shape.c.value, shape.unit.factor)]

----------------------------------------------------------------------------
(* Claims about the round trip (SpecRoundTrip) *)

\* C11: a known triplet of positive values written as "{L} x {W} x {H} mm"
\* and parsed by normalize_dims_from_text gives the original L, W and H.
C11_RoundTrip ==
    (normalized /\ shape.kind = "known") => parsed = shape.dims

\* The round trip for the triplets whose values have at most four integer
\* digits and at most three decimals.
RoundTripWithinPattern ==
    (normalized /\ shape.kind = "known"
        /\ \A k \in {"L", "W", "H"} : shape.dims[k] \in {Dec(152, 0), Dec(60, 0), Dec(15, 1), Dec(5984, 2)}) =>
        parsed = shape.dims

----------------------------------------------------------------------------
(* Claims about fetch_dimensions (SpecFetch) *)

\* C6: when fetch_dimensions has returned, its result is none only if every
\* provider it invoked returned none or failed, and for every invoked
\* provider that returned a result the returned result is not none and has
\* every axis of that provider's result.
C6_NoneOnlyIfAllNone ==
    pc = "returned" =>
        /\ best = None => \A p \in invoked : ~Found(AnswerOf(p))
        /\ \A p \in invoked : Found(AnswerOf(p)) =>
              /\ best # None
              /\ DOMAIN AnswerOf(p).dims_mm \subseteq DOMAIN best.dims_mm

\* C6 witness: Wikidata returned only H with the lower confidence, the first
\* URL returned none, the second URL returned L and W, and the returned
\* result has L, W and H.
C6_Witness ==
    /\ pc = "returned"
    /\ WIKIDATA \in invoked
    /\ Found(AnswerOf(WIKIDATA))
    /\ DOMAIN AnswerOf(WIKIDATA).dims_mm = {"H"}
    /\ AnswerOf(WIKIDATA).confidence < CONF_SCHEMA_ORG
    /\ AnswerOf(SchemaOrg(1)) = None
    /\ Found(AnswerOf(SchemaOrg(2)))
    /\ DOMAIN AnswerOf(SchemaOrg(2)).dims_mm = {"L", "W"}
    /\ best # None
    /\ DOMAIN best.dims_mm = LWH

\* The fold of the concurrent calls' answers, failures counted as none.
FoldedConcurrent == FoldInPriorityOrder([p \in Launched(qid) |-> IF Found(AnswerOf(p)) THEN AnswerOf(p) ELSE None])

\* C7: no exception ever leaves fetch_dimensions because a provider failed;
\* every concurrent call is made and completes whatever the others do, and
\* the Wikipedia provider is called whenever L, W, H are incomplete and a
\* label is known; the returned result keeps the evidence and the axes of
\* every invoked provider that succeeded, and is none when every invoked
\* provider failed.
C7_FailureIsNone ==
    /\ ~raised
    /\ pc # "raised"
    /\ pc \in {"wikipedia", "returned"} =>
          /\ Launched(qid) \subseteq invoked
          /\ DOMAIN fetched = Launched(qid)
    /\ pc = "returned" =>
          /\ WikipediaWanted(FoldedConcurrent, label) => WIKIPEDIA \in invoked
          /\ \A p \in invoked : Found(AnswerOf(p)) =>
                /\ best # None
                /\ \E i \in DOMAIN best.evidence : best.evidence[i] = AnswerOf(p).evidence[1]
                /\ DOMAIN AnswerOf(p).dims_mm \subseteq DOMAIN best.dims_mm
          /\ (\A p \in invoked : AnswerOf(p) = Raise) => best = None

\* C7 witness: the Wikidata call and the Wikipedia call raised, the call for
\* the first URL returned a result, and fetch_dimensions returned a result.
C7_Witness ==
    /\ pc = "returned"
    /\ WIKIDATA \in invoked
    /\ AnswerOf(WIKIDATA) = Raise
    /\ Found(AnswerOf(SchemaOrg(1)))
    /\ WIKIPEDIA \in invoked
    /\ AnswerOf(WIKIPEDIA) = Raise
    /\ ~raised
    /\ best = FoldedConcurrent
    /\ best # None

RECURSIVE EvidenceFrom(_, _)
EvidenceFrom(order, i) == IF i > Len(order) THEN <<>> ELSE (IF order[i] \in invoked /\ Found(AnswerOf(order[i])) THEN AnswerOf(order[i]).evidence ELSE <<>>) \o EvidenceFrom(order, i + 1)

\* The evidence of the invoked providers that returned a result, in the
\* order Wikidata, schema.org by URL, Wikipedia.
EvidenceInPriorityOrder == EvidenceFrom(PriorityOrder \o <<WIKIPEDIA>>, 1)

\* The result the answers determine: the fold in priority order of the
\* answers of the concurrent calls, then of the Wikipedia answer when L, W, H
\* are incomplete and a label is known.
ResultOfAnswers == IF WikipediaWanted(FoldedConcurrent, label) THEN FoldOne(FoldedConcurrent, IF Found(AnswerOf(WIKIPEDIA)) THEN AnswerOf(WIKIPEDIA) ELSE None) ELSE FoldedConcurrent

\* C8: the fold happens only when every concurrent call has completed, and
\* the returned result is the one the answers determine, whatever the order
\* in which the calls completed: it is the fold in the order Wikidata,
\* schema.org by URL, Wikipedia, and its evidence lists the providers in that
\* order.
C8_PriorityOrderNotArrival ==
    /\ pc \in {"wikipedia", "returned"} =>
          /\ DOMAIN fetched = Launched(qid)
          /\ Len(arrived) = Cardinality(Launched(qid))
    /\ pc = "returned" =>
          /\ best = ResultOfAnswers
          /\ best # None => best.evidence = EvidenceInPriorityOrder

\* C8 witness: the call for the last URL completed first and the Wikidata
\* call last, every provider returned a result, and the returned evidence
\* starts with Wikidata's and ends with Wikipedia's.
C8_Witness ==
    /\ pc = "returned"
    /\ WIKIDATA \in invoked
    /\ arrived[1] = SchemaOrg(NumUrls)
    /\ arrived[Len(arrived)] = WIKIDATA
    /\ \A p \in invoked : Found(AnswerOf(p))
    /\ WIKIPEDIA \in invoked
    /\ Len(best.evidence) = NumUrls + 2
    /\ best.evidence[1] = AnswerOf(WIKIDATA).evidence[1]
    /\ best.evidence[NumUrls + 2] = AnswerOf(WIKIPEDIA).evidence[1]

----------------------------------------------------------------------------
(* Claims about the schema.org provider (SpecSchemaOrg) *)

\* The page has one blob, a Product whose only dimension data is the
\* additionalProperty entry {name: "Diameter", value: "45 mm"}.
OnlyDiameterProperty ==
    response.blobs = <<Product(<<>>, None, <<[name |-> NAME_DIAMETER, value |-> TEXT_45_MM]>>)>>

\* C12: for a Product whose only dimension data is the additionalProperty
\* entry {name: "Diameter", value: "45 mm"} the result has the single axis
\* DIAMETER, with the value 45.
C12_DiameterProperty ==
    (sopc = "returned" /\ response.extruct /\ OnlyDiameterProperty) =>
        /\ soResult # None
        /\ soResult.dims_mm = Table({<<"DIAMETER", Dec(45, 0)>>})

\* C15: fetch_schema_org never raises, and when the GET fails (network
\* failure, timeout, status outside 2xx) it returns None.
C15_FetchFailureIsNone ==
    /\ sopc # "raised"
    /\ (sopc = "returned" /\ (response.kind # "response" \/ response.status \notin 200..299)) => soResult = None

----------------------------------------------------------------------------
(* Claims about the Wikidata provider (SpecWikidata) *)

\* The indexes, among the first k rows, of the rows whose property is length
\* or depth and whose unit normalizes.
LengthRows(k) == {i \in 1..k : wdRows[i].prop \in {"length", "depth"} /\ to_mm(wdRows[i].amount, wdRows[i].unit) # None}

\* The first of them.
FirstLengthRow(k) == CHOOSE i \in LengthRows(k) : \A j \in LengthRows(k) : i <= j

RECURSIVE SumRefs(_, _)
SumRefs(rows, k) == IF k = 0 THEN 0 ELSE rows[k].refs + SumRefs(rows, k - 1)

\* C14: the confidence of the result is 0.9 exactly when the reference
\* counts of all the returned rows sum to more than 0, 0.8 otherwise, and
\* never above 0.95.
C14_ConfidenceFromRefs ==
    (wdpc = "returned" /\ wdResult # None) =>
        /\ wdResult.confidence = (IF SumRefs(wdRows, Len(wdRows)) > 0 THEN 90 ELSE 80)
        /\ wdResult.confidence <= 95

----------------------------------------------------------------------------
(* Claims about the /dimensions route (SpecFetch) *)

\* C18: when fetch_dimensions returned a result, whatever axes it has, the
\* /dimensions route replies 200 with that result's dims; the only other
\* reply is 404, and only when the result is none.
C18_PartialIsSuccess ==
    reply # None =>
        /\ best # None =>
              /\ reply.status = HTTP_OK
              /\ reply.body.dims_mm = best.dims_mm
        /\ reply.status # HTTP_OK => (reply.status = HTTP_NOT_FOUND /\ best = None)

----------------------------------------------------------------------------
(* Claims about generate_proposals (SpecProposals) *)

\* C19: the proposals are snug, easy, multi in this order, and the easy one
\* has at least the snug one's x_slots, y_slots and z_units and a larger
\* clearance.
C19_EasyNotSmaller ==
    proposals # <<>> =>
        /\ Len(proposals) = 3
        /\ proposals[1].type = "snug" /\ proposals[2].type = "easy" /\ proposals[3].type = "multi"
        /\ proposals[2].x_slots >= proposals[1].x_slots
        /\ proposals[2].y_slots >= proposals[1].y_slots
        /\ proposals[2].z_units >= proposals[1].z_units
        /\ proposals[2].clearance > proposals[1].clearance

\* C19 witness: an item 37.7 mm long, for which the easy proposal takes one
\* more slot in x and one more unit in z than the snug one.
C19_Witness ==
    /\ proposals # <<>>
    /\ item.L = 377
    /\ proposals[1].x_slots = 1
    /\ proposals[2].x_slots = 2
    /\ proposals[2].z_units > proposals[1].z_units

\* C20: every proposal has at least one slot in x and y and one unit in z.
C20_AtLeastOne ==
    \A i \in DOMAIN proposals :
        proposals[i].x_slots >= 1 /\ proposals[i].y_slots >= 1 /\ proposals[i].z_units >= 1

\* C20 witness: an item of negative length and zero height, for which the
\* slots computed without the minimum would be 0.
C20_Witness ==
    /\ proposals # <<>>
    /\ item.L < 0 /\ item.W = 0 /\ item.H < 0
    /\ CeilDiv(item.L + DEFAULT_CLEARANCE_SNUG + 2 * WALL, GRID_XY) = 0
    /\ proposals[1].x_slots = 1
    /\ proposals[1].z_units = 1

----------------------------------------------------------------------------
(* Claims about every result (SpecResults) *)

\* The keys of the dims of an optional result.
KeysOf(r) == IF r = None \/ r = Raise THEN {} ELSE DOMAIN r.dims_mm

\* The keys of every dims dict a producer has written.
ProducedKeys ==
    KeysOf(merged) \cup KeysOf(selfMerged) \cup KeysOf(soResult) \cup KeysOf(wdResult) \cup KeysOf(best)
        \cup (IF parsed = None THEN {} ELSE DOMAIN parsed) \cup DOMAIN wdDims
        \cup UNION {KeysOf(fetched[p]) : p \in DOMAIN fetched}

\* C16 as stated: every key of every dims_mm is one of L, W, H, THICKNESS,
\* DIAMETER.
C16_FixedAxisKeys == ProducedKeys \subseteq {"L", "W", "H", "THICKNESS", "DIAMETER"}

\* C16 amended: every key of every dims_mm is one of L, W, H, T, DIAMETER.
C16_AxisKeysWithT == ProducedKeys \subseteq {"L", "W", "H", "T", "DIAMETER"}

\* C16 witness: the Wikidata provider returned a result for rows that hold a
\* thickness and a diameter, with the keys T and DIAMETER.
C16_Witness ==
    /\ wdpc = "returned"
    /\ wdResult # None
    /\ \E i \in DOMAIN wdRows : wdRows[i].prop = "thickness"
    /\ \E i \in DOMAIN wdRows : wdRows[i].prop = "diameter"
    /\ {"T", "DIAMETER"} \subseteq DOMAIN wdResult.dims_mm

\* C17: every value of the dims of the Wikidata provider is greater than 0.
C17_PositiveValues ==
    /\ \A k \in DOMAIN wdDims : wdDims[k].m > 0
    /\ wdResult # None => \A k \in DOMAIN wdResult.dims_mm : wdResult.dims_mm[k].m > 0

----------------------------------------------------------------------------
(* Claims about the Wikipedia fallback of fetch_dimensions (SpecFetch) *)

\* The combined result of the Wikidata and schema.org calls lacks one of L,
\* W, H, or there is no combined result.
CombinedIncomplete == FoldedConcurrent = None \/ ~(LWH \subseteq DOMAIN FoldedConcurrent.dims_mm)

\* C21: fetch_dimensions invokes the Wikipedia provider exactly when the
\* combined result of the Wikidata and schema.org calls lacks one of L, W, H
\* (or there is none) and a label is known; it never invokes it before the
\* results are combined, nor when L, W and H are all present, nor when no
\* label is known.
C21_WikipediaExactlyWhenIncomplete ==
    /\ pc \in {"start", "gather", "wikipedia"} => WIKIPEDIA \notin invoked
    /\ pc \in {"returned", "replied"} =>
          /\ WIKIPEDIA \in invoked <=> (CombinedIncomplete /\ label # NoneStr)
          /\ (FoldedConcurrent # None /\ LWH \subseteq DOMAIN FoldedConcurrent.dims_mm) => WIKIPEDIA \notin invoked
          /\ label = NoneStr => WIKIPEDIA \notin invoked

\* C21 witness: the combined result has L and W only, a label is known, and
\* fetch_dimensions has returned after invoking the Wikipedia provider.
C21_Witness ==
    /\ pc = "returned"
    /\ FoldedConcurrent # None
    /\ DOMAIN FoldedConcurrent.dims_mm = {"L", "W"}
    /\ label # NoneStr
    /\ WIKIPEDIA \in invoked

\* C22: every confidence the Wikidata provider or the schema.org provider
\* produces is strictly above the Wikipedia provider's 0.6, so when
\* the Wikipedia result is folded into an accumulated result it only fills
\* absent axes: every axis of the accumulated result keeps its value, and
\* the source, the source URL and the confidence of the accumulated result
\* are unchanged.
C22_WikipediaOnlyFills ==
    /\ (wdpc = "returned" /\ wdResult # None) => CONF_WIKIPEDIA < wdResult.confidence
    /\ (sopc = "returned" /\ soResult # None) => CONF_WIKIPEDIA < soResult.confidence
    /\ \A p \in DOMAIN fetched : fetched[p] # None => CONF_WIKIPEDIA < fetched[p].confidence
    /\ (pc \in {"returned", "replied"} /\ WIKIPEDIA \in invoked /\ Found(AnswerOf(WIKIPEDIA)) /\ FoldedConcurrent # None) =>
          /\ AnswerOf(WIKIPEDIA).confidence = CONF_WIKIPEDIA
          /\ AnswerOf(WIKIPEDIA).confidence < FoldedConcurrent.confidence
          /\ DOMAIN best.dims_mm = DOMAIN FoldedConcurrent.dims_mm \cup DOMAIN AnswerOf(WIKIPEDIA).dims_mm
          /\ \A k \in DOMAIN FoldedConcurrent.dims_mm : best.dims_mm[k] = FoldedConcurrent.dims_mm[k]
          /\ \A k \in DOMAIN best.dims_mm \ DOMAIN FoldedConcurrent.dims_mm : best.dims_mm[k] = AnswerOf(WIKIPEDIA).dims_mm[k]
          /\ best.source = FoldedConcurrent.source
          /\ best.source_url = FoldedConcurrent.source_url
          /\ best.confidence = FoldedConcurrent.confidence

\* C22 witness: the accumulated result has L and W from schema.org, the
\* Wikipedia result has L, W and H with another L, and the returned result
\* has schema.org's L and Wikipedia's H.
C22_Witness ==
    /\ pc = "returned"
    /\ WIKIPEDIA \in invoked
    /\ Found(AnswerOf(WIKIPEDIA))
    /\ FoldedConcurrent # None
    /\ DOMAIN FoldedConcurrent.dims_mm = {"L", "W"}
    /\ DOMAIN AnswerOf(WIKIPEDIA).dims_mm = LWH
    /\ AnswerOf(WIKIPEDIA).dims_mm["L"] # FoldedConcurrent.dims_mm["L"]
    /\ best.dims_mm["L"] = FoldedConcurrent.dims_mm["L"]
    /\ best.dims_mm["H"] = AnswerOf(WIKIPEDIA).dims_mm["H"]
    /\ best.source = "schema.org"

----------------------------------------------------------------------------
(* Claims about the shapes of one Product record (SpecSchemaOrg) *)

\* dims of a product after its typed quantity fields.
AfterTyped(product) == TypedDims(product.quantities, 1, EmptyDict)

\* dims of a product after its size field.
AfterSize(product) == SizeDims(AfterTyped(product), product.size)

\* dims of a product after its first j additionalProperty entries.
AfterProps(product, j) == AddPropDims(SubSeq(product.additionalProperty, 1, j), 1, AfterSize(product))

\* Every axis of earlier is in later with the same value.
Keeps(earlier, later) == \A k \in DOMAIN earlier : k \in DOMAIN later /\ later[k] = earlier[k]

\* The shapes of one product are applied in the order typed quantities,
\* size, additionalProperty entries, each keeping what was set before it,
\* and the result is what the last entry leaves.
ShapesInOrder(product, result) ==
    /\ Keeps(AfterTyped(product), AfterSize(product))
    /\ \A j \in 1..Len(product.additionalProperty) : Keeps(AfterProps(product, j - 1), AfterProps(product, j))
    /\ Keeps(AfterTyped(product), result)
    /\ Keeps(AfterSize(product), result)
    /\ \A j \in 0..Len(product.additionalProperty) : Keeps(AfterProps(product, j), result)
    /\ result = AfterProps(product, Len(product.additionalProperty))

\* C23: for a page with one Product record, the schema.org provider applies
\* the typed quantity fields, then the size field, then the
\* additionalProperty entries in order, and an axis set by an earlier shape
\* or an earlier additionalProperty entry has the same value in the result.
C23_EarlierShapeKept ==
    (sopc = "returned" /\ soResult # None /\ Len(Candidates(response.blobs)) = 1) =>
        ShapesInOrder(Candidates(response.blobs)[1], soResult.dims_mm)

\* C23 witness: the typed fields set L and W, the size text holds another L
\* and W and an H, an additionalProperty entry holds a third triplet, and the
\* result has the typed L and W and the H of the size text.
C23_Witness ==
    /\ sopc = "returned"
    /\ soResult # None
    /\ Len(response.blobs) = 1
    /\ response.blobs[1].isProduct
    /\ DOMAIN AfterTyped(response.blobs[1]) = {"L", "W"}
    /\ response.blobs[1].size = [kind |-> "str", text |-> TEXT_TRIPLET_MM]
    /\ Len(response.blobs[1].additionalProperty) = 1
    /\ response.blobs[1].additionalProperty[1].value = TEXT_TRIPLET_CM
    /\ soResult.dims_mm["L"] = AfterTyped(response.blobs[1])["L"]
    /\ soResult.dims_mm["L"] # normalize_dims_from_text(TEXT_TRIPLET_MM)["L"]
    /\ soResult.dims_mm["H"] = normalize_dims_from_text(TEXT_TRIPLET_MM)["H"]
    /\ soResult.dims_mm["H"] # normalize_dims_from_text(TEXT_TRIPLET_CM)["H"]

----------------------------------------------------------------------------
(* Claims about the temp-file service (SpecTempFiles) *)

\* The download URLs of the last download's token and filetype that
\* /generate returned at most 300 s before that download.
FreshUrls == {i \in DOMAIN issued : issued[i].token = download.token /\ issued[i].filetype = download.filetype /\ issued[i].at <= download.at /\ download.at - issued[i].at <= MAX_AGE}

\* C24: no file older than 300 s is ever served: a download of a token whose
\* file is older than 300 s deletes the file and answers 410, a download of a
\* token with no file answers 404, and a download of a URL that /generate
\* returned at most 300 s earlier, with the same filetype, answers 200 with
\* the file that call generated.
C24_NeverServedAfterExpiry ==
    download # None =>
        /\ download.reply.status = HTTP_OK =>
              /\ download.had # None
              /\ download.reply.body = download.had
              /\ download.at - download.had.mtime <= MAX_AGE
        /\ (download.had # None /\ download.at - download.had.mtime > MAX_AGE) =>
              /\ download.reply.status = HTTP_GONE
              /\ Path(download.token, download.filetype) \notin DOMAIN TEMP_DIR
        /\ download.had = None => download.reply.status = HTTP_NOT_FOUND
        /\ \A i \in FreshUrls :
              /\ download.reply.status = HTTP_OK
              /\ download.reply.body = [mtime |-> issued[i].at, box |-> issued[i].box]

\* C24 witness: a file was downloaded 301 s after it was generated, the
\* reply was 410 and the file is gone, while a second file generated later
\* is still in the directory.
C24_Witness ==
    /\ download # None
    /\ download.had # None
    /\ download.at - download.had.mtime = MAX_AGE + 1
    /\ download.reply.status = HTTP_GONE
    /\ Path(download.token, download.filetype) \notin DOMAIN TEMP_DIR
    /\ TEMP_DIR # <<>>

----------------------------------------------------------------------------
(* Claims about the unit tokens of the parser (SpecParse) *)

\* The unit of the match normalize_dims_from_text uses: the triplet's when
\* there is one, else the single value's, NoneText when no unit is captured.
UnitOfMatch(triple, one) == IF triple # None THEN triple.unit ELSE IF one # None THEN one.unit ELSE NoneText

CapturedUnit(text) == UnitOfMatch(parse_triplet(text), parse_single(text))

\* C25: every unit token the patterns capture, in any letter case, is a unit
\* to_mm recognizes, so the factor 1.0 of the fallback is used only for a
\* text with no unit token: when a text written with a unit token has been
\* normalized and a unit was captured, to_mm knows the captured unit.
C25_CapturedUnitIsKnown ==
    (normalized /\ CapturedUnit(argText) # NoneText) => to_mm(Dec(1, 0), CapturedUnit(argText)) # None

====
